---- MODULE Spec2Model ----
(***************************************************************************)
(* A model of the dream normalize -> cluster -> classify pipeline of       *)
(* aviz85/dreemz-stats-categories.                                          *)
(*                                                                         *)
(* Text is modelled as a sequence of Unicode code points, so that the      *)
(* string operations of the source (lower, strip, split, startswith, the   *)
(* regular expressions, the Hebrew range test ord(c) > 1487 and            *)
(* ord(c) < 1515) are computed character by character, as Python computes  *)
(* them.  Python's None is the value None below.                           *)
(***************************************************************************)
EXTENDS Integers, Sequences, FiniteSets, TLC

(***************************************************************************)
(* Characters and literals                                                 *)
(***************************************************************************)

\* The characters the model's literals are written with, by name, and
\* ord() of each, in the same order.
OrdNames ==
    <<"NL", "TAB", " ", "!", "QUOTE", "'", "(", ")", "*", ",", ".", "1",
      ":", "=", "A", "B", "C", "D", "E", "F", "G", "H", "I", "J", "K",
      "L", "M", "N", "O", "P", "Q", "R", "S", "T", "U", "V", "W", "X",
      "Y", "Z", "a", "b", "c", "d", "e", "f", "g", "h", "i", "j", "k",
      "l", "m", "n", "o", "p", "q", "r", "s", "t", "u", "v", "w", "x",
      "y", "z", "|", "ALEF", "BET", "TAV", "ENDASH", "ARROW">>

OrdCodes ==
    <<10, 9, 32, 33, 34, 39, 40, 41, 42, 44, 46, 49, 58, 61, 65, 66, 67,
      68, 69, 70, 71, 72, 73, 74, 75, 76, 77, 78, 79, 80, 81, 82, 83, 84,
      85, 86, 87, 88, 89, 90, 97, 98, 99, 100, 101, 102, 103, 104, 105,
      106, 107, 108, 109, 110, 111, 112, 113, 114, 115, 116, 117, 118,
      119, 120, 121, 122, 124, 1488, 1489, 1514, 8211, 8594>>

\* ord() of the character named c.
Ord ==
    [c \in {OrdNames[n] : n \in DOMAIN OrdNames} |->
        OrdCodes[CHOOSE n \in DOMAIN OrdNames : OrdNames[n] = c]]

\* The text whose characters are named, one by one, by the tuple t.
S(t) == [k \in 1..Len(t) |-> Ord[t[k]]]

\* Python's None (no text holds a negative code point).
None == <<-1>>

\* The empty str.
Empty == <<>>

\* Python truthiness of an optional str: None and "" are falsy.
Truthy(s) == s # None /\ s # Empty

\* The element of a set of one element. In {e(x) : x \in {v}} the value v is
\* computed once, as the right-hand side of an assignment is, and e works on
\* the value.
Only(set) == CHOOSE r \in set : TRUE

(***************************************************************************)
(* str methods                                                             *)
(***************************************************************************)

\* str.isspace() of one character; also what \s matches in a str pattern.
WhitespaceCodes ==
    {9, 10, 11, 12, 13, 28, 29, 30, 31, 32, 133, 160, 5760, 8232, 8233, 8239,
     8287, 12288} \cup (8192..8202)

IsSpace(c) == c \in WhitespaceCodes

\* [A-Za-z] of a pattern.
IsAsciiLetter(c) == (c >= 65 /\ c <= 90) \/ (c >= 97 /\ c <= 122)

(***************************************************************************)
(* str.lower(). Python lowers by the Unicode character database of the     *)
(* interpreter (version 14.0.0 in Python 3.11): the tables below are that  *)
(* database, written as runs of code points, one run after the other.      *)
(***************************************************************************)

\* The code points above Z whose lower case is another single code point,
\* four numbers a run: first, last, step and the lower case of first. The
\* run is first, first + step, ..., last, and the lower case of each is as
\* far from it as that of first.
LowerRuns ==
    <<192, 214, 1, 224,  216, 222, 1, 248,  256, 302, 2, 257,  306, 310, 2, 307,
      313, 327, 2, 314,  330, 374, 2, 331,  376, 376, 1, 255,  377, 381, 2, 378,
      385, 385, 1, 595,  386, 388, 2, 387,  390, 390, 1, 596,  391, 391, 1, 392,
      393, 394, 1, 598,  395, 395, 1, 396,  398, 398, 1, 477,  399, 399, 1, 601,
      400, 400, 1, 603,  401, 401, 1, 402,  403, 403, 1, 608,  404, 404, 1, 611,
      406, 406, 1, 617,  407, 407, 1, 616,  408, 408, 1, 409,  412, 412, 1, 623,
      413, 413, 1, 626,  415, 415, 1, 629,  416, 420, 2, 417,  422, 422, 1, 640,
      423, 423, 1, 424,  425, 425, 1, 643,  428, 428, 1, 429,  430, 430, 1, 648,
      431, 431, 1, 432,  433, 434, 1, 650,  435, 437, 2, 436,  439, 439, 1, 658,
      440, 440, 1, 441,  444, 444, 1, 445,  452, 452, 1, 454,  453, 453, 1, 454,
      455, 455, 1, 457,  456, 456, 1, 457,  458, 458, 1, 460,  459, 475, 2, 460,
      478, 494, 2, 479,  497, 497, 1, 499,  498, 500, 2, 499,  502, 502, 1, 405,
      503, 503, 1, 447,  504, 542, 2, 505,  544, 544, 1, 414,  546, 562, 2, 547,
      570, 570, 1, 11365,  571, 571, 1, 572,  573, 573, 1, 410,  574, 574, 1,
      11366,  577, 577, 1, 578,  579, 579, 1, 384,  580, 580, 1, 649,  581, 581,
      1, 652,  582, 590, 2, 583,  880, 882, 2, 881,  886, 886, 1, 887,  895,
      895, 1, 1011,  902, 902, 1, 940,  904, 906, 1, 941,  908, 908, 1, 972,
      910, 911, 1, 973,  913, 929, 1, 945,  931, 939, 1, 963,  975, 975, 1, 983,
      984, 1006, 2, 985,  1012, 1012, 1, 952,  1015, 1015, 1, 1016,  1017, 1017,
      1, 1010,  1018, 1018, 1, 1019,  1021, 1023, 1, 891,  1024, 1039, 1, 1104,
      1040, 1071, 1, 1072,  1120, 1152, 2, 1121,  1162, 1214, 2, 1163,  1216,
      1216, 1, 1231,  1217, 1229, 2, 1218,  1232, 1326, 2, 1233,  1329, 1366, 1,
      1377,  4256, 4293, 1, 11520,  4295, 4295, 1, 11559,  4301, 4301, 1, 11565,
      5024, 5103, 1, 43888,  5104, 5109, 1, 5112,  7312, 7354, 1, 4304,  7357,
      7359, 1, 4349,  7680, 7828, 2, 7681,  7838, 7838, 1, 223,  7840, 7934, 2,
      7841,  7944, 7951, 1, 7936,  7960, 7965, 1, 7952,  7976, 7983, 1, 7968,
      7992, 7999, 1, 7984,  8008, 8013, 1, 8000,  8025, 8031, 2, 8017,  8040,
      8047, 1, 8032,  8072, 8079, 1, 8064,  8088, 8095, 1, 8080,  8104, 8111, 1,
      8096,  8120, 8121, 1, 8112,  8122, 8123, 1, 8048,  8124, 8124, 1, 8115,
      8136, 8139, 1, 8050,  8140, 8140, 1, 8131,  8152, 8153, 1, 8144,  8154,
      8155, 1, 8054,  8168, 8169, 1, 8160,  8170, 8171, 1, 8058,  8172, 8172, 1,
      8165,  8184, 8185, 1, 8056,  8186, 8187, 1, 8060,  8188, 8188, 1, 8179,
      8486, 8486, 1, 969,  8490, 8490, 1, 107,  8491, 8491, 1, 229,  8498, 8498,
      1, 8526,  8544, 8559, 1, 8560,  8579, 8579, 1, 8580,  9398, 9423, 1, 9424,
      11264, 11311, 1, 11312,  11360, 11360, 1, 11361,  11362, 11362, 1, 619,
      11363, 11363, 1, 7549,  11364, 11364, 1, 637,  11367, 11371, 2, 11368,
      11373, 11373, 1, 593,  11374, 11374, 1, 625,  11375, 11375, 1, 592,
      11376, 11376, 1, 594,  11378, 11378, 1, 11379,  11381, 11381, 1, 11382,
      11390, 11391, 1, 575,  11392, 11490, 2, 11393,  11499, 11501, 2, 11500,
      11506, 11506, 1, 11507,  42560, 42604, 2, 42561,  42624, 42650, 2, 42625,
      42786, 42798, 2, 42787,  42802, 42862, 2, 42803,  42873, 42875, 2, 42874,
      42877, 42877, 1, 7545,  42878, 42886, 2, 42879,  42891, 42891, 1, 42892,
      42893, 42893, 1, 613,  42896, 42898, 2, 42897,  42902, 42920, 2, 42903,
      42922, 42922, 1, 614,  42923, 42923, 1, 604,  42924, 42924, 1, 609,
      42925, 42925, 1, 620,  42926, 42926, 1, 618,  42928, 42928, 1, 670,
      42929, 42929, 1, 647,  42930, 42930, 1, 669,  42931, 42931, 1, 43859,
      42932, 42946, 2, 42933,  42948, 42948, 1, 42900,  42949, 42949, 1, 642,
      42950, 42950, 1, 7566,  42951, 42953, 2, 42952,  42960, 42960, 1, 42961,
      42966, 42968, 2, 42967,  42997, 42997, 1, 42998,  65313, 65338, 1, 65345,
      66560, 66599, 1, 66600,  66736, 66771, 1, 66776,  66928, 66938, 1, 66967,
      66940, 66954, 1, 66979,  66956, 66962, 1, 66995,  66964, 66965, 1, 67003,
      68736, 68786, 1, 68800,  71840, 71871, 1, 71872,  93760, 93791, 1, 93792,
      125184, 125217, 1, 125218>>

\* The characters that are cased and not case-ignorable, two numbers a run:
\* first and last.
CasedRuns ==
    <<65, 90,  97, 122,  170, 170,  181, 181,  186, 186,  192, 214,  216, 246,
      248, 442,  444, 447,  452, 659,  661, 687,  880, 883,  886, 887,  891,
      893,  895, 895,  902, 902,  904, 906,  908, 908,  910, 929,  931, 1013,
      1015, 1153,  1162, 1327,  1329, 1366,  1376, 1416,  4256, 4293,  4295,
      4295,  4301, 4301,  4304, 4346,  4349, 4351,  5024, 5109,  5112, 5117,
      7296, 7304,  7312, 7354,  7357, 7359,  7424, 7467,  7531, 7543,  7545,
      7578,  7680, 7957,  7960, 7965,  7968, 8005,  8008, 8013,  8016, 8023,
      8025, 8025,  8027, 8027,  8029, 8029,  8031, 8061,  8064, 8116,  8118,
      8124,  8126, 8126,  8130, 8132,  8134, 8140,  8144, 8147,  8150, 8155,
      8160, 8172,  8178, 8180,  8182, 8188,  8450, 8450,  8455, 8455,  8458,
      8467,  8469, 8469,  8473, 8477,  8484, 8484,  8486, 8486,  8488, 8488,
      8490, 8493,  8495, 8500,  8505, 8505,  8508, 8511,  8517, 8521,  8526,
      8526,  8544, 8575,  8579, 8580,  9398, 9449,  11264, 11387,  11390, 11492,
      11499, 11502,  11506, 11507,  11520, 11557,  11559, 11559,  11565, 11565,
      42560, 42605,  42624, 42651,  42786, 42863,  42865, 42887,  42891, 42894,
      42896, 42954,  42960, 42961,  42963, 42963,  42965, 42969,  42997, 42998,
      43002, 43002,  43824, 43866,  43872, 43880,  43888, 43967,  64256, 64262,
      64275, 64279,  65313, 65338,  65345, 65370,  66560, 66639,  66736, 66771,
      66776, 66811,  66928, 66938,  66940, 66954,  66956, 66962,  66964, 66965,
      66967, 66977,  66979, 66993,  66995, 67001,  67003, 67004,  68736, 68786,
      68800, 68850,  71840, 71903,  93760, 93823,  119808, 119892,  119894,
      119964,  119966, 119967,  119970, 119970,  119973, 119974,  119977,
      119980,  119982, 119993,  119995, 119995,  119997, 120003,  120005,
      120069,  120071, 120074,  120077, 120084,  120086, 120092,  120094,
      120121,  120123, 120126,  120128, 120132,  120134, 120134,  120138,
      120144,  120146, 120485,  120488, 120512,  120514, 120538,  120540,
      120570,  120572, 120596,  120598, 120628,  120630, 120654,  120656,
      120686,  120688, 120712,  120714, 120744,  120746, 120770,  120772,
      120779,  122624, 122633,  122635, 122654,  125184, 125251,  127280,
      127305,  127312, 127337,  127344, 127369>>

\* The case-ignorable characters, two numbers a run: first and last.
CaseIgnorableRuns ==
    <<39, 39,  46, 46,  58, 58,  94, 94,  96, 96,  168, 168,  173, 173,  175,
      175,  180, 180,  183, 184,  688, 879,  884, 885,  890, 890,  900, 901,
      903, 903,  1155, 1161,  1369, 1369,  1375, 1375,  1425, 1469,  1471, 1471,
      1473, 1474,  1476, 1477,  1479, 1479,  1524, 1524,  1536, 1541,  1552,
      1562,  1564, 1564,  1600, 1600,  1611, 1631,  1648, 1648,  1750, 1757,
      1759, 1768,  1770, 1773,  1807, 1807,  1809, 1809,  1840, 1866,  1958,
      1968,  2027, 2037,  2042, 2042,  2045, 2045,  2070, 2093,  2137, 2139,
      2184, 2184,  2192, 2193,  2200, 2207,  2249, 2306,  2362, 2362,  2364,
      2364,  2369, 2376,  2381, 2381,  2385, 2391,  2402, 2403,  2417, 2417,
      2433, 2433,  2492, 2492,  2497, 2500,  2509, 2509,  2530, 2531,  2558,
      2558,  2561, 2562,  2620, 2620,  2625, 2626,  2631, 2632,  2635, 2637,
      2641, 2641,  2672, 2673,  2677, 2677,  2689, 2690,  2748, 2748,  2753,
      2757,  2759, 2760,  2765, 2765,  2786, 2787,  2810, 2815,  2817, 2817,
      2876, 2876,  2879, 2879,  2881, 2884,  2893, 2893,  2901, 2902,  2914,
      2915,  2946, 2946,  3008, 3008,  3021, 3021,  3072, 3072,  3076, 3076,
      3132, 3132,  3134, 3136,  3142, 3144,  3146, 3149,  3157, 3158,  3170,
      3171,  3201, 3201,  3260, 3260,  3263, 3263,  3270, 3270,  3276, 3277,
      3298, 3299,  3328, 3329,  3387, 3388,  3393, 3396,  3405, 3405,  3426,
      3427,  3457, 3457,  3530, 3530,  3538, 3540,  3542, 3542,  3633, 3633,
      3636, 3642,  3654, 3662,  3761, 3761,  3764, 3772,  3782, 3782,  3784,
      3789,  3864, 3865,  3893, 3893,  3895, 3895,  3897, 3897,  3953, 3966,
      3968, 3972,  3974, 3975,  3981, 3991,  3993, 4028,  4038, 4038,  4141,
      4144,  4146, 4151,  4153, 4154,  4157, 4158,  4184, 4185,  4190, 4192,
      4209, 4212,  4226, 4226,  4229, 4230,  4237, 4237,  4253, 4253,  4348,
      4348,  4957, 4959,  5906, 5908,  5938, 5939,  5970, 5971,  6002, 6003,
      6068, 6069,  6071, 6077,  6086, 6086,  6089, 6099,  6103, 6103,  6109,
      6109,  6155, 6159,  6211, 6211,  6277, 6278,  6313, 6313,  6432, 6434,
      6439, 6440,  6450, 6450,  6457, 6459,  6679, 6680,  6683, 6683,  6742,
      6742,  6744, 6750,  6752, 6752,  6754, 6754,  6757, 6764,  6771, 6780,
      6783, 6783,  6823, 6823,  6832, 6862,  6912, 6915,  6964, 6964,  6966,
      6970,  6972, 6972,  6978, 6978,  7019, 7027,  7040, 7041,  7074, 7077,
      7080, 7081,  7083, 7085,  7142, 7142,  7144, 7145,  7149, 7149,  7151,
      7153,  7212, 7219,  7222, 7223,  7288, 7293,  7376, 7378,  7380, 7392,
      7394, 7400,  7405, 7405,  7412, 7412,  7416, 7417,  7468, 7530,  7544,
      7544,  7579, 7679,  8125, 8125,  8127, 8129,  8141, 8143,  8157, 8159,
      8173, 8175,  8189, 8190,  8203, 8207,  8216, 8217,  8228, 8228,  8231,
      8231,  8234, 8238,  8288, 8292,  8294, 8303,  8305, 8305,  8319, 8319,
      8336, 8348,  8400, 8432,  11388, 11389,  11503, 11505,  11631, 11631,
      11647, 11647,  11744, 11775,  11823, 11823,  12293, 12293,  12330, 12333,
      12337, 12341,  12347, 12347,  12441, 12446,  12540, 12542,  40981, 40981,
      42232, 42237,  42508, 42508,  42607, 42610,  42612, 42621,  42623, 42623,
      42652, 42655,  42736, 42737,  42752, 42785,  42864, 42864,  42888, 42890,
      42994, 42996,  43000, 43001,  43010, 43010,  43014, 43014,  43019, 43019,
      43045, 43046,  43052, 43052,  43204, 43205,  43232, 43249,  43263, 43263,
      43302, 43309,  43335, 43345,  43392, 43394,  43443, 43443,  43446, 43449,
      43452, 43453,  43471, 43471,  43493, 43494,  43561, 43566,  43569, 43570,
      43573, 43574,  43587, 43587,  43596, 43596,  43632, 43632,  43644, 43644,
      43696, 43696,  43698, 43700,  43703, 43704,  43710, 43711,  43713, 43713,
      43741, 43741,  43756, 43757,  43763, 43764,  43766, 43766,  43867, 43871,
      43881, 43883,  44005, 44005,  44008, 44008,  44013, 44013,  64286, 64286,
      64434, 64450,  65024, 65039,  65043, 65043,  65056, 65071,  65106, 65106,
      65109, 65109,  65279, 65279,  65287, 65287,  65294, 65294,  65306, 65306,
      65342, 65342,  65344, 65344,  65392, 65392,  65438, 65439,  65507, 65507,
      65529, 65531,  66045, 66045,  66272, 66272,  66422, 66426,  67456, 67461,
      67463, 67504,  67506, 67514,  68097, 68099,  68101, 68102,  68108, 68111,
      68152, 68154,  68159, 68159,  68325, 68326,  68900, 68903,  69291, 69292,
      69446, 69456,  69506, 69509,  69633, 69633,  69688, 69702,  69744, 69744,
      69747, 69748,  69759, 69761,  69811, 69814,  69817, 69818,  69821, 69821,
      69826, 69826,  69837, 69837,  69888, 69890,  69927, 69931,  69933, 69940,
      70003, 70003,  70016, 70017,  70070, 70078,  70089, 70092,  70095, 70095,
      70191, 70193,  70196, 70196,  70198, 70199,  70206, 70206,  70367, 70367,
      70371, 70378,  70400, 70401,  70459, 70460,  70464, 70464,  70502, 70508,
      70512, 70516,  70712, 70719,  70722, 70724,  70726, 70726,  70750, 70750,
      70835, 70840,  70842, 70842,  70847, 70848,  70850, 70851,  71090, 71093,
      71100, 71101,  71103, 71104,  71132, 71133,  71219, 71226,  71229, 71229,
      71231, 71232,  71339, 71339,  71341, 71341,  71344, 71349,  71351, 71351,
      71453, 71455,  71458, 71461,  71463, 71467,  71727, 71735,  71737, 71738,
      71995, 71996,  71998, 71998,  72003, 72003,  72148, 72151,  72154, 72155,
      72160, 72160,  72193, 72202,  72243, 72248,  72251, 72254,  72263, 72263,
      72273, 72278,  72281, 72283,  72330, 72342,  72344, 72345,  72752, 72758,
      72760, 72765,  72767, 72767,  72850, 72871,  72874, 72880,  72882, 72883,
      72885, 72886,  73009, 73014,  73018, 73018,  73020, 73021,  73023, 73029,
      73031, 73031,  73104, 73105,  73109, 73109,  73111, 73111,  73459, 73460,
      78896, 78904,  92912, 92916,  92976, 92982,  92992, 92995,  94031, 94031,
      94095, 94111,  94176, 94177,  94179, 94180,  110576, 110579,  110581,
      110587,  110589, 110590,  113821, 113822,  113824, 113827,  118528,
      118573,  118576, 118598,  119143, 119145,  119155, 119170,  119173,
      119179,  119210, 119213,  119362, 119364,  121344, 121398,  121403,
      121452,  121461, 121461,  121476, 121476,  121499, 121503,  121505,
      121519,  122880, 122886,  122888, 122904,  122907, 122913,  122915,
      122916,  122918, 122922,  123184, 123197,  123566, 123566,  123628,
      123631,  125136, 125142,  125252, 125259,  127995, 127999,  917505,
      917505,  917536, 917631,  917760, 917999>>

\* No character below 192 but A-Z, and none from 1367 to 4255 (Hebrew is
\* there), has a lower case of its own.
NoCaseAbove(c) == c < 192 \/ (c > 1366 /\ c < 4256)

\* c is in a run of the table t of two numbers a run.
InRuns(c, t) ==
    \E r \in 1..(Len(t) \div 2) : t[2 * r - 1] <= c /\ c <= t[2 * r]

\* The runs of the table t of four numbers a run that c is in.
RunsOf(c, t) ==
    {r \in 1..(Len(t) \div 4) :
        /\ t[4 * r - 3] <= c
        /\ c <= t[4 * r - 2]
        /\ (c - t[4 * r - 3]) % t[4 * r - 1] = 0}

\* c lowered as the characters of the runs hits of the table t are: as far
\* from c as the lower case of the first of the run is from the first. c
\* itself when there is no run.
LoweredBy(c, t, hits) ==
    IF hits = {} THEN c
    ELSE c + Only({t[4 * r] - t[4 * r - 3] : r \in hits})

\* The lower case of c by the table t of four numbers a run.
LowerIn(c, t) == LoweredBy(c, t, RunsOf(c, t))

\* The lower case of one character as one code point (the simple mapping, the
\* one a pattern compiled with re.IGNORECASE compares by): U+0130 gives i.
ToLower(c) ==
    IF c >= 65 /\ c <= 90 THEN c + 32
    ELSE IF NoCaseAbove(c) THEN c
    ELSE IF c = 304 THEN 105
    ELSE LowerIn(c, LowerRuns)

\* str.lower() of a str of one character: U+0130 gives two characters.
LowerChar(c) == IF c = 304 THEN <<105, 775>> ELSE <<ToLower(c)>>

IsCased(c) == InRuns(c, CasedRuns)

IsCaseIgnorable(c) == InRuns(c, CaseIgnorableRuns)

\* The position of ps nearest to k before it (after it, for NextIn); 0 when
\* there is none.
PrevIn(ps, k) ==
    IF \E b \in ps : b < k
    THEN CHOOSE b \in ps : b < k /\ \A h \in ps : h < k => h <= b
    ELSE 0

NextIn(ps, k) ==
    IF \E a \in ps : a > k
    THEN CHOOSE a \in ps : a > k /\ \A h \in ps : h > k => a <= h
    ELSE 0

\* The lower case of a capital sigma of s with a cased character at every
\* position of around but 0, around being <<prev, next>>: the final sigma
\* when there is a cased character at prev and none at next.
SigmaBetween(s, around, cased) ==
    IF around[1] \in cased /\ around[2] \notin cased THEN 962 ELSE 963

\* The lower case of the capital sigma at position k of s: the final sigma
\* when the nearest character before it that is not case-ignorable is cased
\* and the nearest such character after it is not.
FinalSigma(s, k) ==
    Only({SigmaBetween(s, <<PrevIn(ps, k), NextIn(ps, k)>>,
                       {p \in ps : IsCased(s[p])})
          : ps \in {{p \in 1..Len(s) : ~IsCaseIgnorable(s[p])}}})

\* The lower case of the characters of s from position k on.
RECURSIVE LowerFrom(_, _)
LowerFrom(s, k) ==
    IF k > Len(s) THEN <<>>
    ELSE (IF s[k] = 931 THEN <<FinalSigma(s, k)>> ELSE LowerChar(s[k]))
            \o LowerFrom(s, k + 1)

\* str.lower()
Lower(s) == LowerFrom(s, 1)

\* The characters of s from position a to position b (1-based, inclusive).
Slice(s, a, b) == IF a > b THEN <<>> ELSE SubSeq(s, a, b)

\* s[n:] for a 0-based n.
From(s, n) == Slice(s, n + 1, Len(s))

\* str.startswith at a position: p occurs in s at 1-based position k.
OccursAt(s, p, k) ==
    /\ k >= 1
    /\ k + Len(p) - 1 <= Len(s)
    /\ \A m \in 1..Len(p) : s[k + m - 1] = p[m]

\* str.startswith
StartsWith(s, p) == OccursAt(s, p, 1)

\* The 1-based position of the first occurrence of p in s, 0 when there is none
\* (str.find, shifted by one).
Find(s, p) ==
    LET hits == {k \in 1..(Len(s) + 1) : OccursAt(s, p, k)}
    IN  IF hits = {} THEN 0 ELSE CHOOSE k \in hits : \A h \in hits : k <= h

\* p in s
Contains(s, p) == Find(s, p) # 0

\* The number of leading characters of s that are in the set cs.
RECURSIVE LeadCount(_, _)
LeadCount(s, cs) ==
    IF s # <<>> /\ Head(s) \in cs THEN 1 + LeadCount(Tail(s), cs) ELSE 0

\* The number of trailing characters of s that are in the set cs.
RECURSIVE TrailCount(_, _)
TrailCount(s, cs) ==
    IF s # <<>> /\ s[Len(s)] \in cs
    THEN 1 + TrailCount(Slice(s, 1, Len(s) - 1), cs)
    ELSE 0

\* str.strip(chars) for the set cs of characters.
StripChars(s, cs) ==
    Only({Slice(rest, 1, Len(rest) - TrailCount(rest, cs)) :
            rest \in {From(v, LeadCount(v, cs)) : v \in {s}}})

\* str.strip()
Strip(s) == StripChars(s, WhitespaceCodes)

\* s.split(p)[-1]: what follows the last of the occurrences of p that split
\* finds scanning from the left without overlap.
RECURSIVE SplitLast(_, _)
SplitLast(s, p) ==
    LET k == Find(s, p)
    IN  IF k = 0 THEN s
        ELSE Only({SplitLast(rest, p) : rest \in {From(s, k - 1 + Len(p))}})

\* s.replace(old, new), old not empty
RECURSIVE Replace(_, _, _)
Replace(s, old, new) ==
    LET k == Find(s, old)
    IN  IF k = 0 THEN s
        ELSE Slice(s, 1, k - 1) \o new
                \o Only({Replace(rest, old, new) :
                            rest \in {From(s, k - 1 + Len(old))}})

\* any(ord(c) > 1487 and ord(c) < 1515 for c in s)
HasHebrew(s) == \E k \in 1..Len(s) : s[k] > 1487 /\ s[k] < 1515

(***************************************************************************)
(* Pattern matching (module re)                                            *)
(***************************************************************************)

\* The least of the positions ps, 0 when there is none.
FirstOf(ps) == IF ps = {} THEN 0 ELSE CHOOSE q \in ps : \A h \in ps : q <= h

\* The first position after p at which s holds the character c, 0 when none.
NextIndex(s, c, p) == FirstOf({q \in (p + 1)..Len(s) : s[q] = c})

\* re.findall of d([^d]+)d for a delimiter character d: the groups of the
\* matches found from the left without overlap.
RECURSIVE FindAllBetween(_, _)
FindAllBetween(s, d) ==
    LET p == NextIndex(s, d, 0)
        q == IF p = 0 THEN 0 ELSE NextIndex(s, d, p)
    IN  IF p = 0 \/ q = 0 THEN <<>>
        ELSE IF q = p + 1
        THEN Only({FindAllBetween(rest, d) : rest \in {From(s, p)}})
        ELSE <<Slice(s, p + 1, q - 1)>>
                \o Only({FindAllBetween(rest, d) : rest \in {From(s, q)}})

\* re.sub(r'\([^)]+\)', '', s)
RECURSIVE RemoveParens(_)
RemoveParens(s) ==
    LET p == NextIndex(s, 40, 0)
        q == IF p = 0 THEN 0 ELSE NextIndex(s, 41, p)
    IN  IF p = 0 \/ q = 0 THEN s
        ELSE IF q = p + 1
        THEN Slice(s, 1, p) \o Only({RemoveParens(rest) : rest \in {From(s, p)}})
        ELSE Slice(s, 1, p - 1)
                \o Only({RemoveParens(rest) : rest \in {From(s, q)}})

\* The texts of seq that hold no Hebrew letter, in order.
RECURSIVE WithoutHebrew(_)
WithoutHebrew(seq) ==
    IF seq = <<>> THEN <<>>
    ELSE IF HasHebrew(Head(seq)) THEN WithoutHebrew(Tail(seq))
    ELSE <<Head(seq)>> \o WithoutHebrew(Tail(seq))

\* "([^"]+)" matched at position p of s: the group, and the position of the
\* closing quote; ok is FALSE when the pattern does not match there.
QuotedAt(s, p) ==
    Only({IF q > p + 1
          THEN [ok |-> TRUE, group |-> Slice(s, p + 1, q - 1), end |-> q]
          ELSE [ok |-> FALSE, group |-> <<>>, end |-> 0]
          : q \in {IF p >= 1 /\ p <= Len(s) /\ s[p] = 34
                   THEN NextIndex(s, 34, p)
                   ELSE 0}})

\* A character c of the text against a character p of an ASCII pattern
\* compiled with re.IGNORECASE: the lower cases are equal; i matches the
\* dotless i (U+0131) and s the long s (U+017F) as well.
MatchesIgnoreCase(c, p) ==
    \E low \in {[x \in {c, p} |-> ToLower(x)]} :
        \/ low[c] = low[p]
        \/ low[p] = 105 /\ c = 305
        \/ low[p] = 115 /\ c = 383

\* re.search(kw \s{minWs,} "([^"]+)", s, re.IGNORECASE) for a lower-case
\* keyword kw: the group of the leftmost match, None when there is no match.
KeywordQuoted(s, kw, minWs) ==
    LET ws(k) == LeadCount(From(s, k - 1 + Len(kw)), WhitespaceCodes)
        hits == {k \in 1..Len(s) :
                    /\ k + Len(kw) - 1 <= Len(s)
                    /\ \A m \in 1..Len(kw) :
                           MatchesIgnoreCase(s[k + m - 1], kw[m])
                    /\ ws(k) >= minWs
                    /\ QuotedAt(s, k + Len(kw) + ws(k)).ok}
    IN  IF hits = {} THEN None
        ELSE LET k == CHOOSE k \in hits : \A h \in hits : k <= h
             IN  QuotedAt(s, k + Len(kw) + ws(k)).group

\* re.search(r'"([^"]+)"\s*$', s): the group of the leftmost match, None when
\* there is no match.
LastQuoted(s) ==
    LET tailIsSpace(p) ==
            \A m \in (QuotedAt(s, p).end + 1)..Len(s) : IsSpace(s[m])
        hits == {p \in 1..Len(s) : QuotedAt(s, p).ok /\ tailIsSpace(p)}
    IN  IF hits = {} THEN None
        ELSE QuotedAt(s, CHOOSE p \in hits : \A h \in hits : p <= h).group

(***************************************************************************)
(* GroqService: the oracle client                                          *)
(***************************************************************************)

KwAnswer == S(<<"a", "n", "s", "w", "e", "r", ":">>)
KwMeans == S(<<"m", "e", "a", "n", "s">>)
KwTranslation == S(<<"t", "r", "a", "n", "s", "l", "a", "t", "i", "o", "n", ":">>)

\* GroqService.extract_from_reasoning
extract_from_reasoning(reasoning) ==
    IF ~Truthy(reasoning) THEN Empty
    ELSE LET m1 == KeywordQuoted(reasoning, KwAnswer, 0)
             m2 == KeywordQuoted(reasoning, KwMeans, 1)
             m3 == KeywordQuoted(reasoning, KwTranslation, 0)
             m4 == LastQuoted(reasoning)
         IN  IF m1 # None THEN m1
             ELSE IF m2 # None THEN m2
             ELSE IF m3 # None THEN m3
             ELSE IF m4 # None THEN m4
             ELSE Empty

\* What one request to the oracle does: it raises, or it answers with a
\* message whose content is a str or None and which may carry a reasoning
\* field.
Outcome(r, c, h, t) ==
    [raises |-> r, content |-> c, hasReasoning |-> h, reasoning |-> t]

\* The oracle raises (timeout, rate limit, any exception of the client).
Raises == Outcome(TRUE, None, FALSE, None)

\* The oracle answers with the text c as content.
Answers(c) == Outcome(FALSE, c, FALSE, None)

\* A try statement without a handler for the exception of the request.
HandlesNothing(o) == FALSE

\* GroqService.call_api, lines 42-45: except Exception handles whatever the
\* request raises.
Handles(o) == o.raises

\* The exception of the request leaves call_api and, through the method that
\* called it, reaches the loop of the stage.
call_api_raises(o) == o.raises /\ ~Handles(o)

\* GroqService.call_api: the text returned for the outcome o of the request.
call_api(o) ==
    IF o.raises THEN Empty
    ELSE LET text ==
                 IF ~Truthy(o.content) /\ o.hasReasoning
                 THEN extract_from_reasoning(o.reasoning)
                 ELSE o.content
         IN  IF Truthy(text) THEN text ELSE Empty

(***************************************************************************)
(* GroqService.normalize_dream                                             *)
(***************************************************************************)

NullWord == S(<<"n", "u", "l", "l">>)
To == S(<<"t", "o", " ">>)
ToTo == S(<<"t", "o", " ", "t", "o", " ">>)
LabelPrefixes ==
    << S(<<"t", "o", " ", "n", "o", "r", "m", "a", "l", "i", "z", "e", "d", ":">>),
       S(<<"n", "o", "r", "m", "a", "l", "i", "z", "e", "d", ":">>),
       S(<<"e", "n", "g", "l", "i", "s", "h", ":">>),
       S(<<"t", "r", "a", "n", "s", "l", "a", "t", "i", "o", "n", ":">>),
       S(<<"s", "i", "m", "p", "l", "i", "f", "i", "e", "d", ":">>) >>
BareVerbs ==
    { S(<<"b", "e", "c", "o", "m", "e", " ">>), S(<<"b", "e", " ">>), S(<<"g", "e", "t", " ">>),
      S(<<"b", "u", "y", " ">>), S(<<"h", "a", "v", "e", " ">>) }
Articles == { S(<<"a", " ">>), S(<<"t", "h", "e", " ">>) }

\* AddTo without the call of lower().
AddToKeepsCase(dream_title) ==
    Only({IF ~StartsWith(clean, To) THEN To \o clean ELSE clean :
            clean \in {Strip(dream_title)}})

\* The deterministic fallback of the source: the lower-cased, stripped title,
\* with "to " put in front unless it starts with it (lines 108-111, 198-201).
AddTo(dream_title) ==
    Only({IF ~StartsWith(clean, To) THEN To \o clean ELSE clean :
            clean \in {Strip(Lower(dream_title))}})

\* One round of the loop over the label prefixes (lines 118-120).
RECURSIVE StripLabels(_, _)
StripLabels(response, k) ==
    IF k > Len(LabelPrefixes) THEN response
    ELSE Only({StripLabels(r, k + 1) :
                 r \in {IF Contains(response, LabelPrefixes[k])
                        THEN Strip(SplitLast(response, LabelPrefixes[k]))
                        ELSE response}})

\* response = X.split(sep)[-1].strip() if sep in X (lines 126-129, 154-155).
AfterLast(response, sep) ==
    IF Contains(response, sep) THEN Strip(SplitLast(response, sep)) ELSE response

\* The first Hebrew-free group of re.findall(d([^d]+)d), else the text itself
\* (lines 138-151).
PreferSpan(response, d) ==
    LET english == WithoutHebrew(FindAllBetween(response, d))
    IN  IF english # <<>> THEN english[1] ELSE response

\* Lines 164-183: collapse "to to " and put "to " in front of a phrase that
\* lacks it, except one that starts with an article.
EnsureTo(response) ==
    IF response = Empty THEN response
    ELSE Only({IF StartsWith(r, To) THEN r
               ELSE IF \E v \in BareVerbs : StartsWith(r, v) THEN To \o r
               ELSE IF ~(\E w \in Articles : StartsWith(r, w)) THEN To \o r
               ELSE r :
                 r \in {Replace(response, ToTo, To)}})

\* Lines 114-204 of normalize_dream: the cleaning of a non-empty response.
CleanResponse(dream_title, response0) ==
    LET \* the successive values of the variable response, each as the one
        \* element of a set
        r1 == {StripLabels(r, 1) : r \in {Lower(response0)}}
        r2 == {StripChars(r, {34}) : r \in r1}
        r3 == {StripChars(r, {39}) : r \in r2}
        r4 == {AfterLast(r, <<8594>>) : r \in r3}
        r5 == {AfterLast(r, <<8211>>) : r \in r4}
        r6 == {StripChars(r, {42}) : r \in r5}
        r7 == {Strip(r) : r \in r6}
        r8 == {PreferSpan(r, 42) : r \in r7}
        r9 == {PreferSpan(r, 34) : r \in r8}
        r10 == {AfterLast(r, <<61>>) : r \in r9}
        r11 == {StripChars(r, {34}) : r \in r10}
        r12 == {StripChars(r, {39}) : r \in r11}
        r13 == {Lower(StripChars(r, {42})) : r \in r12}
        r14 == {RemoveParens(r) : r \in r13}
        r15 == {Strip(r) : r \in r14}
        r16 == {EnsureTo(r) : r \in r15}
        r17 == {Strip(r) : r \in r16}
        r18 == {StripChars(r, {46}) : r \in r17}
    IN  Only({IF response # Empty /\ HasHebrew(response)
              THEN To \o Lower(dream_title)
              ELSE IF response # Empty /\ Len(response) > 2 THEN response
              ELSE AddTo(dream_title) :
                response \in r18})

\* GroqService.normalize_dream, for the outcome o of its one oracle request.
normalize_dream(dream_title, o) ==
    IF ~Truthy(dream_title) \/ Strip(dream_title) = Empty THEN None
    ELSE LET is_hebrew == HasHebrew(dream_title)
         IN  Only({IF response = Empty \/ response = NullWord
                        \/ Strip(response) = Empty
                   THEN IF ~is_hebrew THEN AddTo(dream_title) ELSE None
                   ELSE CleanResponse(dream_title, response) :
                     response \in {call_api(o)}})

(***************************************************************************)
(* GroqService.create_taxonomy and fallback_taxonomy                       *)
(***************************************************************************)

\* A taxonomy dict.
Taxonomy(l1, l2, l3) == [level1 |-> l1, level2 |-> l2, level3 |-> l3]

\* The characters of the class [A-Za-z\s].
LetterOrSpace == (65..90) \cup (97..122) \cup WhitespaceCodes

\* The length of the run of [A-Za-z\s] characters of s that starts at k.
RunAt(s, k) == LeadCount(From(s, k - 1), LetterOrSpace)

\* ([A-Za-z\s]+)\|([A-Za-z\s]+)\|([A-Za-z\s]+) matched at position k of s:
\* each group is the whole run of class characters at its place, the first and
\* the second end at a pipe.
PipesAt(s, k) ==
    LET n1 == RunAt(s, k)
        p1 == k + n1
        n2 == RunAt(s, p1 + 1)
        p2 == p1 + 1 + n2
        n3 == RunAt(s, p2 + 1)
        isPipe(p) == p <= Len(s) /\ s[p] = 124
    IN  IF n1 >= 1 /\ isPipe(p1) /\ n2 >= 1 /\ isPipe(p2) /\ n3 >= 1
        THEN [ok |-> TRUE,
              groups |-> <<Slice(s, k, p1 - 1), Slice(s, p1 + 1, p2 - 1),
                           Slice(s, p2 + 1, p2 + n3)>>]
        ELSE [ok |-> FALSE, groups |-> <<>>]

\* SearchPipes with re.match in the place of re.search: the pattern is tried at
\* the start of s only.
SearchPipesAtStart(s) ==
    IF PipesAt(s, 1).ok THEN PipesAt(s, 1).groups ELSE <<>>

\* re.search of the pattern in s: the groups of the leftmost match, <<>> when
\* there is no match.
SearchPipes(s) ==
    LET hits == {k \in 1..Len(s) : PipesAt(s, k).ok}
    IN  IF hits = {} THEN <<>>
        ELSE PipesAt(s, CHOOSE k \in hits : \A h \in hits : k <= h).groups

\* s.split(sep), sep not empty
RECURSIVE Split(_, _)
Split(s, sep) ==
    LET k == Find(s, sep)
    IN  IF k = 0 THEN <<s>>
        ELSE <<Slice(s, 1, k - 1)>> \o Split(From(s, k - 1 + Len(sep)), sep)

\* The words whose mention makes create_taxonomy read the response by lines.
CategoryWords ==
    { S(<<"c", "a", "r", "e", "e", "r">>),
      S(<<"p", "e", "r", "s", "o", "n", "a", "l">>),
      S(<<"h", "e", "a", "l", "t", "h">>),
      S(<<"t", "r", "a", "v", "e", "l">>) }

\* The keyword groups of fallback_taxonomy, in the order of its elif chain,
\* each with the path it gives.
FallbackRules ==
    << [words |-> { S(<<"y", "o", "u", "t", "u", "b", "e">>),
                    S(<<"t", "i", "k", "t", "o", "k">>),
                    S(<<"i", "n", "s", "t", "a", "g", "r", "a", "m">>),
                    S(<<"i", "n", "f", "l", "u", "e", "n", "c", "e", "r">>) },
        path |-> Taxonomy(S(<<"C", "a", "r", "e", "e", "r">>),
                          S(<<"D", "i", "g", "i", "t", "a", "l", " ", "C", "r", "e", "a", "t", "o", "r">>),
                          S(<<"S", "o", "c", "i", "a", "l", " ", "M", "e", "d", "i", "a">>))],
       [words |-> { S(<<"d", "o", "c", "t", "o", "r">>),
                    S(<<"l", "a", "w", "y", "e", "r">>),
                    S(<<"e", "n", "g", "i", "n", "e", "e", "r">>),
                    S(<<"t", "e", "a", "c", "h", "e", "r">>) },
        path |-> Taxonomy(S(<<"C", "a", "r", "e", "e", "r">>),
                          S(<<"P", "r", "o", "f", "e", "s", "s", "i", "o", "n", "a", "l">>),
                          S(<<"T", "r", "a", "d", "i", "t", "i", "o", "n", "a", "l">>))],
       [words |-> { S(<<"r", "i", "c", "h">>),
                    S(<<"m", "o", "n", "e", "y">>),
                    S(<<"m", "i", "l", "l", "i", "o", "n", "a", "i", "r", "e">>) },
        path |-> Taxonomy(S(<<"F", "i", "n", "a", "n", "c", "i", "a", "l">>),
                          S(<<"W", "e", "a", "l", "t", "h">>),
                          S(<<"P", "e", "r", "s", "o", "n", "a", "l">>))],
       [words |-> { S(<<"t", "r", "a", "v", "e", "l">>),
                    S(<<"v", "i", "s", "i", "t">>),
                    S(<<"t", "r", "i", "p">>) },
        path |-> Taxonomy(S(<<"T", "r", "a", "v", "e", "l">>),
                          S(<<"A", "d", "v", "e", "n", "t", "u", "r", "e">>),
                          S(<<"E", "x", "p", "l", "o", "r", "a", "t", "i", "o", "n">>))],
       [words |-> { S(<<"m", "a", "r", "r", "y">>),
                    S(<<"m", "a", "r", "r", "i", "e", "d">>),
                    S(<<"w", "e", "d", "d", "i", "n", "g">>),
                    S(<<"l", "o", "v", "e">>) },
        path |-> Taxonomy(S(<<"R", "e", "l", "a", "t", "i", "o", "n", "s", "h", "i", "p", "s">>),
                          S(<<"R", "o", "m", "a", "n", "c", "e">>),
                          S(<<"M", "a", "r", "r", "i", "a", "g", "e">>))],
       [words |-> { S(<<"f", "i", "t">>),
                    S(<<"g", "y", "m">>),
                    S(<<"w", "e", "i", "g", "h", "t">>),
                    S(<<"m", "u", "s", "c", "l", "e">>) },
        path |-> Taxonomy(S(<<"H", "e", "a", "l", "t", "h">>),
                          S(<<"F", "i", "t", "n", "e", "s", "s">>),
                          S(<<"P", "h", "y", "s", "i", "c", "a", "l">>))] >>

\* The path of the final else of fallback_taxonomy.
DefaultPath ==
    Taxonomy(S(<<"P", "e", "r", "s", "o", "n", "a", "l">>),
             S(<<"G", "o", "a", "l", "s">>),
             S(<<"G", "e", "n", "e", "r", "a", "l">>))

\* The rule k of FallbackRules matches the lower-cased phrase.
RuleMatches(k, phrase_lower) ==
    \E w \in FallbackRules[k].words : Contains(phrase_lower, w)

\* The if/elif chain of fallback_taxonomy from rule k on.
RECURSIVE FallbackFrom(_, _)
FallbackFrom(k, phrase_lower) ==
    IF k > Len(FallbackRules) THEN DefaultPath
    ELSE IF RuleMatches(k, phrase_lower) THEN FallbackRules[k].path
    ELSE FallbackFrom(k + 1, phrase_lower)

\* GroqService.fallback_taxonomy
fallback_taxonomy(phrase) == FallbackFrom(1, Lower(phrase))

\* The keyword groups of DreamGroupingService._fallback_taxonomy, in the order
\* of its elif chain, each with the path it gives.
GroupingFallbackRules ==
    << [words |-> { S(<<"y", "o", "u", "t", "u", "b", "e">>),
                    S(<<"t", "i", "k", "t", "o", "k">>),
                    S(<<"i", "n", "s", "t", "a", "g", "r", "a", "m">>),
                    S(<<"i", "n", "f", "l", "u", "e", "n", "c", "e", "r">>) },
        path |-> Taxonomy(S(<<"C", "a", "r", "e", "e", "r">>),
                          S(<<"D", "i", "g", "i", "t", "a", "l", " ", "C", "r", "e", "a", "t", "o", "r">>),
                          S(<<"S", "o", "c", "i", "a", "l", " ", "M", "e", "d", "i", "a">>))],
       [words |-> { S(<<"d", "o", "c", "t", "o", "r">>),
                    S(<<"l", "a", "w", "y", "e", "r">>),
                    S(<<"e", "n", "g", "i", "n", "e", "e", "r">>),
                    S(<<"t", "e", "a", "c", "h", "e", "r">>) },
        path |-> Taxonomy(S(<<"C", "a", "r", "e", "e", "r">>),
                          S(<<"P", "r", "o", "f", "e", "s", "s", "i", "o", "n", "a", "l">>),
                          S(<<"T", "r", "a", "d", "i", "t", "i", "o", "n", "a", "l">>))],
       [words |-> { S(<<"r", "i", "c", "h">>),
                    S(<<"m", "o", "n", "e", "y">>),
                    S(<<"m", "i", "l", "l", "i", "o", "n", "a", "i", "r", "e">>) },
        path |-> Taxonomy(S(<<"F", "i", "n", "a", "n", "c", "i", "a", "l">>),
                          S(<<"W", "e", "a", "l", "t", "h">>),
                          S(<<"P", "e", "r", "s", "o", "n", "a", "l">>))],
       [words |-> { S(<<"t", "r", "a", "v", "e", "l">>),
                    S(<<"v", "i", "s", "i", "t">>),
                    S(<<"t", "r", "i", "p">>) },
        path |-> Taxonomy(S(<<"T", "r", "a", "v", "e", "l">>),
                          S(<<"E", "x", "p", "l", "o", "r", "a", "t", "i", "o", "n">>),
                          S(<<"P", "e", "r", "s", "o", "n", "a", "l">>))],
       [words |-> { S(<<"m", "a", "r", "r", "y">>),
                    S(<<"f", "a", "m", "i", "l", "y">>),
                    S(<<"c", "h", "i", "l", "d", "r", "e", "n">>) },
        path |-> Taxonomy(S(<<"R", "e", "l", "a", "t", "i", "o", "n", "s", "h", "i", "p", "s">>),
                          S(<<"F", "a", "m", "i", "l", "y">>),
                          S(<<"P", "e", "r", "s", "o", "n", "a", "l">>))] >>

\* The path of the final else of DreamGroupingService._fallback_taxonomy.
GroupingDefaultPath ==
    Taxonomy(S(<<"P", "e", "r", "s", "o", "n", "a", "l", " ", "G", "o", "a", "l", "s">>),
             S(<<"G", "e", "n", "e", "r", "a", "l">>),
             S(<<"O", "t", "h", "e", "r">>))

\* The if/elif chain of DreamGroupingService._fallback_taxonomy from rule k
\* on.
RECURSIVE GroupingFallbackFrom(_, _)
GroupingFallbackFrom(k, phrase_lower) ==
    IF k > Len(GroupingFallbackRules) THEN GroupingDefaultPath
    ELSE IF \E w \in GroupingFallbackRules[k].words : Contains(phrase_lower, w)
    THEN GroupingFallbackRules[k].path
    ELSE GroupingFallbackFrom(k + 1, phrase_lower)

\* DreamGroupingService._fallback_taxonomy
_fallback_taxonomy(phrase) == GroupingFallbackFrom(1, Lower(phrase))

\* Lines 237-245 of create_taxonomy: a response that mentions a category word
\* and has three lines or more is read by lines.
ByLines(response) ==
    LET lines == Split(response, <<10>>)
    IN  IF (\E w \in CategoryWords : Contains(Lower(response), w)) /\ Len(lines) >= 3
        THEN <<Strip(lines[1]), Strip(lines[2]), Strip(lines[3])>>
        ELSE <<>>

\* GroqService.create_taxonomy, for the outcome o of its one oracle request.
create_taxonomy(phrase, o) ==
    LET response == call_api(o)
        groups == SearchPipes(response)
        lines == ByLines(response)
    IN  IF response # Empty /\ groups # <<>>
        THEN Taxonomy(Strip(groups[1]), Strip(groups[2]), Strip(groups[3]))
        ELSE IF response # Empty /\ lines # <<>>
        THEN Taxonomy(lines[1], lines[2], lines[3])
        ELSE fallback_taxonomy(phrase)

\* GroqService.check_similarity, for the outcome o of its oracle request (no
\* request is made when the phrases are equal).
check_similarity(phrase1, phrase2, o) ==
    IF phrase1 = phrase2 THEN TRUE
    ELSE LET response_lower == Lower(call_api(o))
         IN  Contains(response_lower, S(<<"y", "e", "s">>))
             /\ ~Contains(response_lower, S(<<"n", "o">>))

(***************************************************************************)
(* Inputs                                                                  *)
(***************************************************************************)

\* The longest generated raw title, oracle answer and reasoning text.
MaxTitleLen == 2
MaxRespLen == 3
MaxTaxLen == 5

\* All texts of at most n characters over the alphabet.
Texts(alphabet, n) == UNION {[1..m -> alphabet] : m \in 0..n}

\* What the corpus loaders keep: row['post_title'] and its strip() not empty.
LoaderAccepts(title) == Truthy(title) /\ Strip(title) # Empty

BecomeADoctor == S(<<"B", "e", "c", "o", "m", "e", " ", "A", " ", "D", "o", "c", "t", "o", "r">>)
BecomeAYoutuber == S(<<"b", "e", "c", "o", "m", "e", " ", "a", " ", "y", "o", "u", "t", "u", "b", "e", "r">>)

\* Raw titles: named ones, and every short text over T, o, space and alef.
Titles ==
    {title \in
        { BecomeADoctor,
          S(<<"t", "o", " ", "r", "u", "n">>),
          S(<<" ", "R", "u", "n", " ">>),
          S(<<"T", "o", " ", "F", "l", "y">>),
          S(<<"ALEF", "BET">>),
          S(<<"t", "o", " ", "ALEF">>) }
        \cup Texts({84, 111, 32, 1488}, MaxTitleLen) : LoaderAccepts(title)}

\* Oracle answers to a normalization request.
NormAnswers ==
    { S(<<"t", "o", " ", "b", "e", " ", "a", " ", "d", "o", "c", "t", "o", "r">>),
      S(<<"T", "r", "a", "n", "s", "l", "a", "t", "i", "o", "n", ":", " ", "QUOTE", "t", "o", " ", "f", "l", "y", "QUOTE">>),
      S(<<"n", "u", "l", "l">>),
      S(<<"*", "ALEF", "BET", "*", " ", "=", " ", "*", "t", "o", " ", "g", "o", "*">>),
      S(<<"a", " ", "(", "t", "h", "e", ")", " ", "b", ".">>),
      S(<<"t", "o", " ", "t", "o", " ", "g", "e", "t", " ", "x">>),
      S(<<"ALEF", "BET">>),
      S(<<"x", " ", "ARROW", " ", "b", "e", " ", "y">>) }
    \cup Texts({116, 111, 32, 34, 1488}, MaxRespLen)

\* Reasoning texts of an answer whose content is empty.
Reasonings ==
    { S(<<"A", "n", "s", "w", "e", "r", ":", " ", "QUOTE", "t", "o", " ", "f", "l", "y", "QUOTE">>),
      S(<<"i", "t", " ", "m", "e", "a", "n", "s", " ", "QUOTE", "t", "o", " ", "g", "o", "QUOTE", " ", "h", "e", "r", "e">>),
      S(<<"s", "o", " ", "QUOTE", "ALEF", "BET", "QUOTE">>),
      S(<<"n", "o", " ", "q", "u", "o", "t", "e">>) }

\* The outcomes of a normalization request.
NormOutcomes ==
    {Raises, Answers(None), Outcome(FALSE, None, TRUE, None)}
    \cup {Answers(c) : c \in NormAnswers}
    \cup {Outcome(FALSE, c, TRUE, r) : c \in {None, Empty}, r \in Reasonings}

\* Phrases given to create_taxonomy.
Phrases ==
    { Empty,
      BecomeAYoutuber,
      S(<<"a", " ", "d", "o", "c", "t", "o", "r", " ", "o", "n", " ", "y", "o", "u", "t", "u", "b", "e">>),
      S(<<"g", "e", "t", " ", "r", "i", "c", "h", " ", "a", "n", "d", " ", "t", "r", "a", "v", "e", "l">>),
      S(<<"t", "e", "a", "c", "h", "e", "r", " ", "w", "i", "t", "h", " ", "m", "o", "n", "e", "y">>),
      S(<<"t", "r", "i", "p", " ", "t", "o", " ", "a", " ", "w", "e", "d", "d", "i", "n", "g">>),
      S(<<"l", "o", "v", "e", " ", "t", "h", "e", " ", "g", "y", "m">>),
      S(<<"v", "i", "s", "i", "t", " ", "a", " ", "l", "a", "w", "y", "e", "r">>),
      S(<<"G", "E", "T", " ", "F", "I", "T">>),
      S(<<"t", "o", " ", "b", "e", " ", "h", "a", "p", "p", "y">>),
      S(<<"|">>) }

\* Oracle answers to a classification request.
TaxAnswers ==
    { S(<<"C", "a", "r", "e", "e", "r", "|", "M", "e", "d", "i", "c", "i", "n", "e", "|", "D", "o", "c", "t", "o", "r">>),
      S(<<"C", "a", "r", "e", "e", "r", " ", "|", " ", "D", "i", "g", "i", "t", "a", "l", " ", "C", "r", "e", "a", "t", "o", "r", " ", "|", " ", "S", "o", "c", "i", "a", "l", " ", "M", "e", "d", "i", "a">>),
      S(<<"a", "|", "b", "|", "c", "|", "d">>),
      S(<<"1", "a", "|", "b", "|", "c">>),
      S(<<"a", "|", "1", "|", "b", "|", "c", "|", "d">>),
      S(<<"C", "a", "r", "e", "e", "r", "|", " ", "|", "D", "o", "c", "t", "o", "r">>),
      S(<<"c", "a", "r", "e", "e", "r", "NL", "h", "e", "a", "l", "t", "h", "NL", "t", "r", "a", "v", "e", "l">>),
      S(<<"P", "e", "r", "s", "o", "n", "a", "l", "NL", "NL">>),
      S(<<"I", "t", " ", "i", "s", " ", "a", "b", "o", "u", "t", " ", "c", "a", "r", "e", "e", "r">>),
      S(<<"o", "n", "e", "NL", "t", "w", "o", "NL", "t", "h", "r", "e", "e">>) }
    \cup Texts({97, 32, 124, 49}, MaxTaxLen)

\* The outcomes of a classification request.
TaxOutcomes == {Raises, Answers(None)} \cup {Answers(c) : c \in TaxAnswers}

(***************************************************************************)
(* Stage 1 and stage 2 of the drivers (process_all_dreams,                 *)
(* run_full_processing): normalize every record, group by exact phrase,    *)
(* merge similar groups                                                    *)
(***************************************************************************)

\* The number of records of the corpus of a pipeline run.
MaxDreams == 3

\* range(i + 1, min(i + 50, len(groups))) of process_all_dreams.
ProcessAllWindow == 50

\* range(i + 1, min(i + 20, len(groups))) of run_full_processing.
RunFullWindow == 20

\* range(i + 1, min(i + 10, len(groups))) of step3_similarity.
Step3Window == 10

\* batch_size of step3_similarity: the number of groups one run takes as i.
Step3Batch == 20

\* A window that takes in every group of the list.
WindowOverAll(v) == ProcessAllWindow + RunFullWindow + Step3Window

Window(v) ==
    IF v = "process_all_dreams" THEN ProcessAllWindow
    ELSE IF v = "run_full_processing" THEN RunFullWindow
    ELSE Step3Window

\* run_full_processing and the step scripts (step1_normalize before
\* step3_similarity and fix_normalizations) wrap each call of the service in
\* a try statement of their own; process_all_dreams does not.
StageCatches(v) == v # "process_all_dreams"

\* The drivers that sort the groups by representative before the merge loop.
SortsGroups(v) == v \in {"run_full_processing", "step3_similarity"}

Min(a, b) == IF a <= b THEN a ELSE b

\* Raw titles of the corpus of a pipeline run.
MergeTitles ==
    { S(<<"t", "o", " ", "x">>), S(<<"T", "o", " ", "X">>), S(<<"b", "e", " ", "y">>), S(<<"ALEF", "BET">>) }

\* What the oracle does with a normalization request of a pipeline run.
MergeNormOutcomes == {Raises, Answers(S(<<"t", "o", " ", "y">>))}

\* What the oracle does with a similarity request.
SimOutcomes == {Raises, Answers(S(<<"y", "e", "s">>)), Answers(S(<<"N", "o">>))}

\* The oracle with no standing opinion: any outcome for any request.
Free == [fixed |-> FALSE, pairs |-> {}, known |-> {}]

\* The oracle that answers every similarity request, and holds just the pairs
\* of ps equivalent.
Holding(ps) == [fixed |-> TRUE, pairs |-> ps, known |-> {}]

\* The oracle that answers the taxonomy request for the phrases of ks, and
\* fails for any other phrase.
Knowing(ks) == [fixed |-> TRUE, pairs |-> {}, known |-> ks]

\* A record as the loaders build it: not normalized, in no group (None is 0
\* for group_id).
Dream(post_id, title) ==
    [post_id |-> post_id, title |-> title, normalized |-> None, group_id |-> 0]

\* The body of the stage 1 loop: norm if norm else title.lower().
NormalizeStage(title, o) ==
    LET norm == normalize_dream(title, o)
    IN  IF Truthy(norm) THEN norm ELSE Lower(title)

\* The elements of seq, each once, in the order of their first occurrence (the
\* key order of the dict exact_groups).
DistinctInOrder(seq) ==
    LET firsts == {k \in 1..Len(seq) : \A h \in 1..(k - 1) : seq[h] # seq[k]}
    IN  [n \in 1..Cardinality(firsts) |->
            seq[CHOOSE k \in firsts : Cardinality({h \in firsts : h <= k}) = n]]

\* The post ids of the records of ds whose normalized phrase is key, in order.
MembersOf(ds, key) ==
    LET own == SelectSeq(ds, LAMBDA d : d.normalized = key)
    IN  [k \in 1..Len(own) |-> own[k].post_id]

\* The normalized phrases of the records that have one (if dream['normalized']).
NormalizedOf(ds) ==
    LET has == SelectSeq(ds, LAMBDA d : Truthy(d.normalized))
    IN  [k \in 1..Len(has) |-> has[k].normalized]

\* The exact pass: one group per distinct normalized phrase, numbered in the
\* order of first occurrence (the id "group_%05d" is modelled by its number).
ExactGroups(ds) ==
    LET keys == DistinctInOrder(NormalizedOf(ds))
    IN  [k \in 1..Len(keys) |->
            [id |-> k,
             representative |-> keys[k],
             members |-> MembersOf(ds, keys[k]),
             member_count |-> Len(MembersOf(ds, keys[k]))]]

\* dream['group_id'] = group_id for the members of each group of gs.
AssignGroups(ds, gs) ==
    [d \in 1..Len(ds) |->
        LET own == {k \in 1..Len(gs) :
                        \E m \in 1..Len(gs[k].members) :
                            gs[k].members[m] = ds[d].post_id}
        IN  IF own = {} THEN ds[d]
            ELSE [ds[d] EXCEPT !.group_id = gs[CHOOSE k \in own : TRUE].id]]

\* a < b for two str (code point by code point, a proper prefix first).
LexLess(a, b) ==
    LET diff == {k \in 1..Min(Len(a), Len(b)) : a[k] # b[k]}
    IN  IF diff = {} THEN Len(a) < Len(b)
        ELSE LET k == CHOOSE k \in diff : \A h \in diff : k <= h
             IN  a[k] < b[k]

\* g put into the sorted list gs, behind the groups whose representative is not
\* greater (list.sort is stable).
RECURSIVE InsertSorted(_, _)
InsertSorted(g, gs) ==
    IF gs = <<>> THEN <<g>>
    ELSE IF LexLess(g.representative, Head(gs).representative)
    THEN <<g>> \o gs
    ELSE <<Head(gs)>> \o InsertSorted(g, Tail(gs))

\* groups.sort(key=lambda g: g['representative'])
RECURSIVE SortByRepresentative(_)
SortByRepresentative(gs) ==
    IF gs = <<>> THEN <<>>
    ELSE InsertSorted(gs[Len(gs)], SortByRepresentative(Slice(gs, 1, Len(gs) - 1)))

\* s.split(): the first word of s, Empty when s has no word.
FirstWord(s) ==
    LET rest == From(s, LeadCount(s, WhitespaceCodes))
        stops == {k \in 1..Len(rest) : IsSpace(rest[k])}
    IN  IF stops = {} THEN rest
        ELSE Slice(rest, 1, (CHOOSE k \in stops : \A h \in stops : k <= h) - 1)

\* The heuristic of run_full_processing: both representatives have words and
\* their first words differ.
PrefilterSkips(rep1, rep2) ==
    /\ FirstWord(rep1) # Empty
    /\ FirstWord(rep2) # Empty
    /\ FirstWord(rep1) # FirstWord(rep2)

\* MergeInto that removes group j without taking its members over.
MergeIntoDropping(gs, i0, j0) ==
    Slice(gs, 1, j0) \o Slice(gs, j0 + 2, Len(gs))

\* The heuristic of step3_similarity: both representatives have words and
\* the first three letters of their first words differ.
Prefix3Skips(rep1, rep2) ==
    /\ FirstWord(rep1) # Empty
    /\ FirstWord(rep2) # Empty
    /\ Slice(FirstWord(rep1), 1, Min(3, Len(FirstWord(rep1))))
            # Slice(FirstWord(rep2), 1, Min(3, Len(FirstWord(rep2))))

\* step3_similarity: group i takes the members of group j over; group j stays
\* in the list.
ExtendOnly(gs, i0, j0) ==
    LET members == gs[i0 + 1].members \o gs[j0 + 1].members
    IN  [gs EXCEPT ![i0 + 1].members = members,
                   ![i0 + 1].member_count = Len(members)]

\* Group j merged into group i (0-based positions, i < j): i takes the members
\* of j over, j is popped.
MergeInto(gs, i0, j0) ==
    LET members == gs[i0 + 1].members \o gs[j0 + 1].members
        merged == [gs EXCEPT ![i0 + 1].members = members,
                             ![i0 + 1].member_count = Len(members)]
    IN  Slice(merged, 1, j0) \o Slice(merged, j0 + 2, Len(merged))

\* dream['group_id'] = groups[i]['id'] for the members of group j.
Repoint(ds, gs, i0, j0) ==
    [d \in 1..Len(ds) |->
        IF \E m \in 1..Len(gs[j0 + 1].members) :
                gs[j0 + 1].members[m] = ds[d].post_id
        THEN [ds[d] EXCEPT !.group_id = gs[i0 + 1].id]
        ELSE ds[d]]

(***************************************************************************)
(* State                                                                   *)
(***************************************************************************)

VARIABLES
    \* one call of a GroqService method
    op,          \* the method called: "normalize_dream" or "create_taxonomy"
    arg,         \* its argument: the raw title, or the phrase
    outcome,     \* what the oracle did with the request of the call
    normalized,  \* the value normalize_dream returned
    taxonomy,    \* the dict create_taxonomy returned
    pc,          \* "call" before the method runs, "returned" after
    \* one run of a driver (process_all_dreams or run_full_processing)
    driver,      \* the script that runs
    dreams,      \* the list dreams: post_id, title, normalized, group_id
    cursor,      \* the number of records stage 1 has handled
    groups,      \* the list groups: id, representative, members, member_count
    i,           \* the outer loop variable of the merge pass (0-based)
    j,           \* the inner loop variable of the merge pass (0-based)
    stop,        \* the ends of range() of the outer and the inner loop
    examined,    \* the ids of the groups the inner loop has visited for this i
    merged_count,\* the number of merges
    verdicts,    \* the calls of check_similarity so far: phrases and result
    to_delete,   \* step3_similarity: the ids of the groups marked to_delete
    classified,  \* stage 3: the taxonomies of the groups classified so far
    opinion,     \* what the oracle holds of pairs of phrases (see Free)
    last_index,  \* steps 1, 3, 4: last_index of the checkpoint of the step (0: no file)
    mpc,         \* where the driver is: "normalize", "outer", "inner", "done"
    \* the runs of run_background_clean.main on one corpus
    corpus,      \* the rows of full_results.tsv: post_id, title
    stub,        \* the deterministic oracle: the outcome for each title
    checkpoint_file, \* normalized_dreams.json: absent, valid or partial
    processed_dreams, \* the list processed_dreams
    done_ids,    \* the set done_ids
    all_dreams,  \* the list all_dreams: the rows this run has to process
    idx,         \* the number of rows of all_dreams the loop is through with
    count,       \* the variable count
    service,           \* the class of the service object of the run
    normalized_cache,  \* DreamGroupingService: pairs <<raw title, phrase>>
    similarity_cache,  \* DreamGroupingService: pairs <<cache_key, verdict>>
    log,               \* the calls made on the service so far, in order
    import_status,     \* app.py: the global status dict
    workers,           \* app.py: the background threads, by start request
    requests,          \* app.py: the POST /api/import/start requests
    observed,          \* app.py: what the GET /api/import/status requests returned,
                       \* and whether no thread was inside an update then
    csvfile,           \* app.py: dreams_export.csv as the import reads it: its
                       \* lines and the rows csv.reader yields
    faults,      \* the number of checkpoint or log writes that raised, in all
                 \* runs (auto_normalize: the batch runs that failed)
    rpc          \* where main is: "stopped", "loop", "checkpoint", "dumping",
                 \* "logging", "final_dumping", "done", "aborted"

callVars == <<op, arg, outcome, normalized, taxonomy, pc>>

mergeVars ==
    <<driver, dreams, cursor, groups, i, j, stop, examined, merged_count,
      verdicts, to_delete, classified, opinion, last_index, mpc>>

resumeVars ==
    <<corpus, stub, checkpoint_file, processed_dreams, done_ids, all_dreams,
      idx, count, faults, rpc>>

serviceVars == <<service, normalized_cache, similarity_cache, log>>

appVars == <<import_status, workers, requests, observed, csvfile>>

\* The similarity search over the clusters
VARIABLES
    live,        \* the live clusters: cluster id -> the phrases of its members
    index,       \* the index snapshot: entries (phrase, cluster id)
    query,       \* the last query, with the live cluster ids at its time
    found        \* the ranked result of the last query

searchVars == <<live, index, query, found>>

\* No query was made.
NoQuery == [cluster |-> 0, k |-> 0, threshold |-> 0, live |-> {}]

\* No similarity search is modelled.
SearchIdle ==
    /\ live = <<>>
    /\ index = {}
    /\ query = NoQuery
    /\ found = <<>>

vars == <<callVars, mergeVars, resumeVars, serviceVars, appVars, searchVars>>

\* The dict of a call that has not returned.
NoTaxonomy == Taxonomy(None, None, None)

\* No call of a GroqService method is modelled.
CallIdle ==
    /\ op = "none"
    /\ arg = Empty
    /\ outcome = Raises
    /\ normalized = None
    /\ taxonomy = NoTaxonomy
    /\ pc = "idle"

\* No driver run is modelled.
MergeIdle ==
    /\ driver = "none"
    /\ dreams = <<>>
    /\ cursor = 0
    /\ groups = <<>>
    /\ i = 0
    /\ j = 0
    /\ stop = <<0, 0>>
    /\ examined = <<>>
    /\ merged_count = 0
    /\ verdicts = <<>>
    /\ to_delete = {}
    /\ classified = <<>>
    /\ opinion = Free
    /\ last_index = 0
    /\ mpc = "idle"

\* The state of the web application while another program is looked at.
AppIdle ==
    /\ import_status = <<>>
    /\ workers = <<>>
    /\ requests = <<>>
    /\ observed = <<>>
    /\ csvfile = [kind |-> "text", lines |-> 1, rows |-> 1, bad |-> FALSE]

ServiceIdle ==
    /\ service = "none"
    /\ normalized_cache = {}
    /\ similarity_cache = {}
    /\ log = <<>>

\* normalized_dreams.json does not exist.
Absent == [kind |-> "absent", data |-> <<>>]

\* No run of run_background_clean is modelled.
ResumeIdle ==
    /\ corpus = <<>>
    /\ stub = <<>>
    /\ checkpoint_file = Absent
    /\ processed_dreams = <<>>
    /\ done_ids = {}
    /\ all_dreams = <<>>
    /\ idx = 0
    /\ count = 0
    /\ faults = 0
    /\ rpc = "idle"

(***************************************************************************)
(* Spec: one call of a GroqService method, for every input and every       *)
(* behaviour of the oracle                                                 *)
(***************************************************************************)

CallInit ==
    /\ op \in {"normalize_dream", "create_taxonomy"}
    /\ arg \in IF op = "normalize_dream" THEN Titles ELSE Phrases
    /\ outcome = Raises
    /\ normalized = None
    /\ taxonomy = NoTaxonomy
    /\ pc = "call"

\* service.normalize_dream(arg)
NormalizeDream ==
    /\ pc = "call"
    /\ op = "normalize_dream"
    /\ \E o \in NormOutcomes :
        /\ outcome' = o
        /\ normalized' = normalize_dream(arg, o)
    /\ pc' = "returned"
    /\ UNCHANGED <<op, arg, taxonomy>>
    /\ UNCHANGED <<mergeVars, resumeVars, serviceVars, appVars, searchVars>>

\* service.create_taxonomy(arg)
CreateTaxonomy ==
    /\ pc = "call"
    /\ op = "create_taxonomy"
    /\ \E o \in TaxOutcomes :
        /\ outcome' = o
        /\ taxonomy' = create_taxonomy(arg, o)
    /\ pc' = "returned"
    /\ UNCHANGED <<op, arg, normalized>>
    /\ UNCHANGED <<mergeVars, resumeVars, serviceVars, appVars, searchVars>>

Init == CallInit /\ MergeIdle /\ ResumeIdle /\ ServiceIdle /\ AppIdle /\ SearchIdle

Next == NormalizeDream \/ CreateTaxonomy

Spec == Init /\ [][Next]_vars

(***************************************************************************)
(* SpecMerge: one run of process_all_dreams or of run_full_processing up   *)
(* to the end of the merge pass, for every small corpus and every          *)
(* behaviour of the oracle                                                 *)
(***************************************************************************)

\* The corpora of at most MaxDreams records with distinct post ids, as the
\* loaders build them.
Corpora ==
    UNION {{[k \in 1..n |-> Dream(k, t[k])] : t \in [1..n -> MergeTitles]} :
              n \in 1..MaxDreams}

MergeInit ==
    /\ CallIdle
    /\ ResumeIdle
    /\ ServiceIdle
    /\ AppIdle
    /\ SearchIdle
    /\ driver \in {"process_all_dreams", "run_full_processing"}
    /\ dreams \in Corpora
    /\ cursor = 0
    /\ groups = <<>>
    /\ i = 0
    /\ j = 0
    /\ stop = <<0, 0>>
    /\ examined = <<>>
    /\ merged_count = 0
    /\ verdicts = <<>>
    /\ to_delete = {}
    /\ classified = <<>>
    /\ opinion = Free
    /\ last_index = 0
    /\ mpc = "normalize"

\* One iteration of the stage 1 loop: the record at cursor is normalized.
NormalizeRecord ==
    /\ mpc = "normalize"
    /\ cursor < Len(dreams)
    /\ \E o \in MergeNormOutcomes :
        IF call_api_raises(o) /\ ~StageCatches(driver)
        THEN /\ mpc' = "crashed"
             /\ UNCHANGED <<dreams, cursor>>
        ELSE /\ dreams' = [dreams EXCEPT ![cursor + 1].normalized =
                                 IF call_api_raises(o)
                                 THEN Lower(dreams[cursor + 1].title)
                                 ELSE NormalizeStage(dreams[cursor + 1].title, o)]
             /\ cursor' = cursor + 1
             /\ UNCHANGED mpc
    /\ UNCHANGED <<driver, groups, i, j, stop, examined, merged_count, verdicts>>
    /\ UNCHANGED <<to_delete, classified, opinion, last_index, callVars, resumeVars, serviceVars, appVars, searchVars>>

\* Stage 2 up to the merge loop: the exact groups are built and numbered, the
\* records are pointed at them, run_full_processing sorts the groups, and
\* range(len(groups)) is evaluated.
ExactPass ==
    /\ mpc = "normalize"
    /\ cursor = Len(dreams)
    /\ LET exact == ExactGroups(dreams)
       IN  /\ groups' = IF SortsGroups(driver)
                        THEN SortByRepresentative(exact) ELSE exact
           /\ dreams' = AssignGroups(dreams, exact)
           /\ stop' = <<IF driver = "step3_similarity"
                        THEN Min(Step3Batch, Len(exact)) ELSE Len(exact), 0>>
    /\ i' = 0
    /\ mpc' = "outer"
    /\ UNCHANGED <<driver, cursor, j, examined, merged_count, verdicts>>
    /\ UNCHANGED <<to_delete, classified, opinion, last_index, callVars, resumeVars, serviceVars, appVars, searchVars>>

\* for i in range(len(groups)): the next i is in range and the list has not
\* shrunk below it; range(i + 1, min(i + window, len(groups))) is evaluated.
OuterEnter ==
    /\ mpc = "outer"
    /\ i < stop[1]
    /\ i < Len(groups)
    /\ j' = i + 1
    /\ stop' = <<stop[1], Min(i + Window(driver), Len(groups))>>
    /\ examined' = <<>>
    /\ mpc' = "inner"
    /\ UNCHANGED <<driver, dreams, cursor, groups, i, merged_count, verdicts>>
    /\ UNCHANGED <<to_delete, classified, opinion, last_index, callVars, resumeVars, serviceVars, appVars, searchVars>>

\* The outer loop ends: range is exhausted, or if i >= len(groups): break.
OuterExit ==
    /\ mpc = "outer"
    /\ driver # "step3_similarity"
    /\ ~(i < stop[1] /\ i < Len(groups))
    /\ mpc' = "done"
    /\ UNCHANGED <<driver, dreams, cursor, groups, i, j, stop, examined,
                   merged_count, verdicts>>
    /\ UNCHANGED <<to_delete, classified, opinion, last_index, callVars, resumeVars, serviceVars, appVars, searchVars>>

\* The inner loop ends: range is exhausted, or if j >= len(groups): break.
InnerExit ==
    /\ mpc = "inner"
    /\ ~(j < stop[2] /\ j < Len(groups))
    /\ i' = i + 1
    /\ mpc' = "outer"
    /\ UNCHANGED <<driver, dreams, cursor, groups, j, stop, examined,
                   merged_count, verdicts>>
    /\ UNCHANGED <<to_delete, classified, opinion, last_index, callVars, resumeVars, serviceVars, appVars, searchVars>>

\* run_full_processing only: the first words differ, continue.
InnerSkip ==
    /\ mpc = "inner"
    /\ j < stop[2]
    /\ j < Len(groups)
    /\ driver = "run_full_processing"
    /\ PrefilterSkips(groups[i + 1].representative, groups[j + 1].representative)
    /\ examined' = Append(examined, groups[j + 1].id)
    /\ j' = j + 1
    /\ UNCHANGED <<driver, dreams, cursor, groups, i, stop, merged_count, verdicts,
                   mpc>>
    /\ UNCHANGED <<to_delete, classified, opinion, last_index, callVars, resumeVars, serviceVars, appVars, searchVars>>

\* What the oracle can do with the similarity request for two phrases.
OracleOutcomes(phrase1, phrase2) ==
    IF ~opinion.fixed THEN SimOutcomes
    ELSE IF {phrase1, phrase2} \in opinion.pairs
    THEN {Answers(S(<<"y", "e", "s">>))}
    ELSE {Answers(S(<<"N", "o">>))}

\* One iteration of the inner loop that asks the oracle: on a true verdict
\* group j is merged into group i and popped; the loop goes on with j + 1.
InnerCompare ==
    /\ mpc = "inner"
    /\ driver # "step3_similarity"
    /\ j < stop[2]
    /\ j < Len(groups)
    /\ ~(/\ driver = "run_full_processing"
         /\ PrefilterSkips(groups[i + 1].representative,
                           groups[j + 1].representative))
    /\ \E o \in OracleOutcomes(groups[i + 1].representative,
                               groups[j + 1].representative) :
        LET similar == check_similarity(groups[i + 1].representative,
                                        groups[j + 1].representative, o)
        IN  IF call_api_raises(o) /\ ~StageCatches(driver)
            THEN /\ mpc' = "crashed"
                 /\ UNCHANGED <<verdicts, groups, dreams, merged_count, examined, j>>
            ELSE IF call_api_raises(o)
            THEN /\ examined' = Append(examined, groups[j + 1].id)
                 /\ j' = j + 1
                 /\ UNCHANGED <<verdicts, groups, dreams, merged_count, mpc>>
            ELSE /\ verdicts' = Append(verdicts,
                                       [phrase1 |-> groups[i + 1].representative,
                                        phrase2 |-> groups[j + 1].representative,
                                        similar |-> similar])
                 /\ IF similar
                    THEN /\ groups' = MergeInto(groups, i, j)
                         /\ dreams' = Repoint(dreams, groups, i, j)
                         /\ merged_count' = merged_count + 1
                    ELSE UNCHANGED <<groups, dreams, merged_count>>
                 /\ examined' = Append(examined, groups[j + 1].id)
                 /\ j' = j + 1
                 /\ UNCHANGED mpc
    /\ UNCHANGED <<driver, cursor, i, stop>>
    /\ UNCHANGED <<to_delete, classified, opinion, last_index, callVars, resumeVars, serviceVars, appVars, searchVars>>

MergeNext ==
    \/ NormalizeRecord
    \/ ExactPass
    \/ OuterEnter
    \/ OuterExit
    \/ InnerExit
    \/ InnerSkip
    \/ InnerCompare

SpecMerge == MergeInit /\ [][MergeNext]_vars

(***************************************************************************)
(* SpecPipeline: the three stages of a driver, stage 3 (create_taxonomies) *)
(* after the merge pass                                                    *)
(***************************************************************************)

\* What the oracle does with a taxonomy request of a pipeline run: it
\* raises, answers with empty text, with text in the format, or with text
\* that is not in the format.
PipelineTaxOutcomes ==
    { Raises, Answers(Empty), Answers(S(<<"A", "|", "B", "|", "C">>)),
      Answers(S(<<"x">>)) }

\* create_taxonomies: one iteration of the loop over the groups.
ClassifyGroup ==
    /\ mpc = "done"
    /\ Len(classified) < Len(groups)
    /\ \E o \in PipelineTaxOutcomes :
        IF call_api_raises(o) /\ ~StageCatches(driver)
        THEN /\ mpc' = "crashed"
             /\ UNCHANGED classified
        ELSE /\ classified' =
                    Append(classified,
                           IF call_api_raises(o)
                           THEN fallback_taxonomy(
                                    groups[Len(classified) + 1].representative)
                           ELSE create_taxonomy(
                                    groups[Len(classified) + 1].representative, o))
             /\ UNCHANGED mpc
    /\ UNCHANGED <<driver, dreams, cursor, groups, i, j, stop, examined,
                   merged_count, verdicts, to_delete, opinion, last_index>>
    /\ UNCHANGED <<callVars, resumeVars, serviceVars, appVars, searchVars>>

\* create_taxonomies returns: every group has its taxonomy.
ClassifyExit ==
    /\ mpc = "done"
    /\ Len(classified) = Len(groups)
    /\ mpc' = "classified"
    /\ UNCHANGED <<driver, dreams, cursor, groups, i, j, stop, examined,
                   merged_count, verdicts, to_delete, classified, opinion, last_index>>
    /\ UNCHANGED <<callVars, resumeVars, serviceVars, appVars, searchVars>>

PipelineInit == MergeInit

PipelineNext ==
    \/ NormalizeRecord
    \/ ExactPass
    \/ OuterEnter
    \/ OuterExit
    \/ InnerExit
    \/ InnerSkip
    \/ InnerCompare
    \/ ClassifyGroup
    \/ ClassifyExit

SpecPipeline == PipelineInit /\ [][PipelineNext]_vars

(***************************************************************************)
(* SpecSteps: the step scripts on a small corpus: step1_normalize,         *)
(* step2_group (the exact groups and the record table grouped_dreams.json) *)
(* and one run of step3_similarity                                         *)
(***************************************************************************)

\* Raw titles of the corpus of the step scripts: with the outcomes of
\* MergeNormOutcomes they give up to three phrases of one first word.
StepsTitles ==
    { S(<<"t", "o", " ", "w">>), S(<<"t", "o", " ", "x">>), S(<<"T", "o", " ", "X">>), S(<<"ALEF", "BET">>) }

StepsCorpora ==
    UNION {{[k \in 1..n |-> Dream(k, t[k])] : t \in [1..n -> StepsTitles]} :
              n \in 1..MaxDreams}

StepsInit ==
    /\ CallIdle
    /\ ResumeIdle
    /\ ServiceIdle
    /\ AppIdle
    /\ SearchIdle
    /\ driver = "step3_similarity"
    /\ dreams \in StepsCorpora
    /\ cursor = 0
    /\ groups = <<>>
    /\ i = 0
    /\ j = 0
    /\ stop = <<0, 0>>
    /\ examined = <<>>
    /\ merged_count = 0
    /\ verdicts = <<>>
    /\ to_delete = {}
    /\ classified = <<>>
    /\ opinion = Free
    /\ last_index = 0
    /\ mpc = "normalize"

\* step3_similarity: the first three letters of the first words differ,
\* continue.
Step3Skip ==
    /\ mpc = "inner"
    /\ j < stop[2]
    /\ j < Len(groups)
    /\ driver = "step3_similarity"
    /\ Prefix3Skips(groups[i + 1].representative, groups[j + 1].representative)
    /\ examined' = Append(examined, groups[j + 1].id)
    /\ j' = j + 1
    /\ UNCHANGED <<driver, dreams, cursor, groups, i, stop, merged_count, verdicts,
                   to_delete, mpc>>
    /\ UNCHANGED <<classified, opinion, last_index, callVars, resumeVars, serviceVars, appVars, searchVars>>

\* step3_similarity: one iteration of the inner loop that asks the oracle; on
\* a true verdict group i takes the members of group j over and group j is
\* marked to_delete. The records of grouped_dreams.json are not touched.
Step3Compare ==
    /\ mpc = "inner"
    /\ j < stop[2]
    /\ j < Len(groups)
    /\ driver = "step3_similarity"
    /\ ~Prefix3Skips(groups[i + 1].representative, groups[j + 1].representative)
    /\ \E o \in OracleOutcomes(groups[i + 1].representative,
                               groups[j + 1].representative) :
        LET similar == check_similarity(groups[i + 1].representative,
                                        groups[j + 1].representative, o)
        IN  /\ verdicts' = Append(verdicts,
                                  [phrase1 |-> groups[i + 1].representative,
                                   phrase2 |-> groups[j + 1].representative,
                                   similar |-> similar])
            /\ IF similar
               THEN /\ groups' = ExtendOnly(groups, i, j)
                    /\ to_delete' = to_delete \cup {groups[j + 1].id}
                    /\ merged_count' = merged_count + 1
               ELSE UNCHANGED <<groups, to_delete, merged_count>>
    /\ examined' = Append(examined, groups[j + 1].id)
    /\ j' = j + 1
    /\ UNCHANGED <<driver, dreams, cursor, i, stop, mpc>>
    /\ UNCHANGED <<classified, opinion, last_index, callVars, resumeVars, serviceVars, appVars, searchVars>>

\* step3_similarity after the loop: the groups marked to_delete are removed,
\* the list is saved as groups_merged.json and end_index as the checkpoint.
Step3Finish ==
    /\ mpc = "outer"
    /\ driver = "step3_similarity"
    /\ ~(i < stop[1] /\ i < Len(groups))
    /\ groups' = SelectSeq(groups, LAMBDA g : g.id \notin to_delete)
    /\ mpc' = "done"
    /\ UNCHANGED <<driver, dreams, cursor, i, j, stop, examined, merged_count,
                   verdicts, to_delete>>
    /\ last_index' = stop[1]
    /\ UNCHANGED <<classified, opinion, callVars, resumeVars, serviceVars, appVars, searchVars>>

StepsNext ==
    \/ NormalizeRecord
    \/ ExactPass
    \/ OuterEnter
    \/ InnerExit
    \/ Step3Skip
    \/ Step3Compare
    \/ Step3Finish

SpecSteps == StepsInit /\ [][StepsNext]_vars

(***************************************************************************)
(* SpecRepair: stage 1 on a small corpus, then the repair pass             *)
(* fix_normalizations over the saved records                               *)
(***************************************************************************)

\* fix_normalizations, lines 23-28: the record is put on the list
\* needs_fixing.
NeedsFixing(dream) ==
    \/ ~Truthy(dream.normalized)
    \/ dream.normalized = NullWord
    \/ dream.normalized = dream.title
    \/ HasHebrew(dream.normalized)

\* fix_normalizations, lines 46-54 and 66-68: the phrase stored for the
\* retried record; None when the retry raises, returns nothing or returns the
\* title itself.
Refixed(title, o) ==
    IF call_api_raises(o) THEN None
    ELSE Only({IF Truthy(n) /\ n # title THEN n ELSE None :
                  n \in {normalize_dream(title, o)}})

RepairInit ==
    /\ CallIdle
    /\ ResumeIdle
    /\ ServiceIdle
    /\ AppIdle
    /\ SearchIdle
    /\ driver = "fix_normalizations"
    /\ dreams \in Corpora
    /\ cursor = 0
    /\ groups = <<>>
    /\ i = 0
    /\ j = 0
    /\ stop = <<0, 0>>
    /\ examined = <<>>
    /\ merged_count = 0
    /\ verdicts = <<>>
    /\ to_delete = {}
    /\ classified = <<>>
    /\ opinion = Free
    /\ last_index = 0
    /\ mpc = "normalize"

\* Stage 1 is over and fix_normalizations loads normalized_dreams.json.
FixStart ==
    /\ mpc = "normalize"
    /\ driver = "fix_normalizations"
    /\ cursor = Len(dreams)
    /\ cursor' = 0
    /\ mpc' = "fix"
    /\ UNCHANGED <<driver, dreams, groups, i, j, stop, examined, merged_count,
                   verdicts, to_delete, classified, opinion, last_index>>
    /\ UNCHANGED <<callVars, resumeVars, serviceVars, appVars, searchVars>>

\* The repair pass at one record: a record on the list needs_fixing is
\* normalized again, any other record is left alone. (The list is made before
\* the loop; no iteration changes a record other than its own, so the test
\* gives the same at the record's turn.)
FixRecord ==
    /\ mpc = "fix"
    /\ cursor < Len(dreams)
    /\ IF NeedsFixing(dreams[cursor + 1])
       THEN \E o \in MergeNormOutcomes :
                dreams' = [dreams EXCEPT ![cursor + 1].normalized =
                               Refixed(dreams[cursor + 1].title, o)]
       ELSE UNCHANGED dreams
    /\ cursor' = cursor + 1
    /\ UNCHANGED <<driver, groups, i, j, stop, examined, merged_count, verdicts,
                   to_delete, classified, opinion, last_index, mpc>>
    /\ UNCHANGED <<callVars, resumeVars, serviceVars, appVars, searchVars>>

\* The final save of fix_normalizations.
FixExit ==
    /\ mpc = "fix"
    /\ cursor = Len(dreams)
    /\ mpc' = "fixed"
    /\ UNCHANGED <<driver, dreams, cursor, groups, i, j, stop, examined,
                   merged_count, verdicts, to_delete, classified, opinion, last_index>>
    /\ UNCHANGED <<callVars, resumeVars, serviceVars, appVars, searchVars>>

RepairNext == NormalizeRecord \/ FixStart \/ FixRecord \/ FixExit

SpecRepair == RepairInit /\ [][RepairNext]_vars

(***************************************************************************)
(* SpecWindow: the merge pass of process_all_dreams and of                 *)
(* run_full_processing on a list of groups longer than the window, with an *)
(* oracle of a standing opinion                                            *)
(***************************************************************************)

\* The phrases of the long corpus, in lexical order of k.
WindowPhrase(k) == S(<<"t", "o", " ">>) \o <<Ord["a"] + (k \div 26), Ord["a"] + (k % 26)>>

\* A phrase with a first word of its own, before every WindowPhrase.
OddPhrase == S(<<"t", "a", " ", "q">>)

\* The window of the driver, read from its range().
WindowOf(v) == IF v = "process_all_dreams" THEN ProcessAllWindow ELSE RunFullWindow

\* The phrases A, B and C: B is next to A, C is one place further from A than
\* the window and the one pop of B bring into reach.
PhraseA == WindowPhrase(0)
PhraseB == WindowPhrase(1)
PhraseC(v) == WindowPhrase(WindowOf(v) + 1)

\* The long corpus after stage 1: record 1 has the odd phrase, records 2 and 3
\* have A and B, the last record has C; every record has a phrase of its own.
LongCorpus(v) ==
    [k \in 1..(WindowOf(v) + 3) |->
        Only({[Dream(k, t) EXCEPT !.normalized = t] :
                 t \in {IF k = 1 THEN OddPhrase ELSE WindowPhrase(k - 2)}})]

\* The opinions of the oracle: A ~ B and B ~ C, with or without A ~ C.
Opinions(v) ==
    {Holding({{PhraseA, PhraseB}, {PhraseB, PhraseC(v)}}),
     Holding({{PhraseA, PhraseB}, {PhraseB, PhraseC(v)}, {PhraseA, PhraseC(v)}})}

WindowInit ==
    /\ CallIdle
    /\ ResumeIdle
    /\ ServiceIdle
    /\ AppIdle
    /\ SearchIdle
    /\ driver \in {"process_all_dreams", "run_full_processing"}
    /\ dreams = LongCorpus(driver)
    /\ opinion \in Opinions(driver)
    /\ last_index = 0
    /\ cursor = Len(dreams)
    /\ groups = <<>>
    /\ i = 0
    /\ j = 0
    /\ stop = <<0, 0>>
    /\ examined = <<>>
    /\ merged_count = 0
    /\ verdicts = <<>>
    /\ to_delete = {}
    /\ classified = <<>>
    /\ mpc = "normalize"

WindowNext ==
    \/ ExactPass
    \/ OuterEnter
    \/ OuterExit
    \/ InnerExit
    \/ InnerSkip
    \/ InnerCompare

SpecWindow == WindowInit /\ [][WindowNext]_vars

(***************************************************************************)
(* SpecSearch: the similarity search over the clusters (spec, section 4.6: *)
(* an index snapshot of phrase embeddings, queried against the live        *)
(* clusters, which manual merges change)                                   *)
(***************************************************************************)

\* The number of clusters when the index is first built.
MaxClusters == 3

\* The largest k of a query.
MaxK == 2

\* The thresholds of the queries.
Thresholds == {0, 50, 75}

\* The minimum score of the lexical tier.
MinLexical == 30

Abs(n) == IF n < 0 THEN 0 - n ELSE n

Max(a, b) == IF a >= b THEN a ELSE b

\* The vector tier's score of two phrases: the distance of their embeddings
\* converted to a similarity in 0..100. (A phrase is known by the number of
\* the cluster it was first in; the embeddings lie on a line.)
VectorSimilarity(p, q) == Max(0, 100 - 25 * Abs(p - q))

\* The tokens of a phrase.
Tokens(p) == {p, p + 1}

\* Token Jaccard overlap, in percent.
Jaccard(p, q) ==
    (100 * Cardinality(Tokens(p) \cap Tokens(q)))
        \div Cardinality(Tokens(p) \cup Tokens(q))

\* Character-sequence similarity, in percent.
SequenceRatio(p, q) == Max(0, 100 - 20 * Abs(p - q))

\* The lexical tier's score: 60% token Jaccard, 40% character sequence.
LexicalSimilarity(p, q) == (60 * Jaccard(p, q) + 40 * SequenceRatio(p, q)) \div 100

\* The existence check that trusts the snapshot.
ExistsInSnapshot(c) == \E e \in index : e.cluster = c

\* The existence check of a query: the cluster is in the live state now.
Exists(c) == c \in DOMAIN live

\* The snapshot of the live clusters: one entry for each phrase.
Snapshot(clusters) ==
    UNION {{[phrase |-> p, cluster |-> c] : p \in clusters[c]} : c \in DOMAIN clusters}

\* The vector tier for query cluster x: the best score of each distinct
\* cluster of the index that exists and is not x, if it clears the threshold.
VectorTier(x, threshold) ==
    LET candidates == {e.cluster : e \in index} \ {x}
        best(c) == CHOOSE s \in {VectorSimilarity(x, e.phrase) :
                                    e \in {f \in index : f.cluster = c}} :
                       \A e \in {f \in index : f.cluster = c} :
                           VectorSimilarity(x, e.phrase) <= s
    IN  {r \in {[cluster |-> c, similarity |-> best(c)] : c \in {d \in candidates : Exists(d)}} :
            r.similarity >= threshold}

\* The lexical tier for query cluster x: the live clusters other than x whose
\* score reaches the minimum.
LexicalTier(x) ==
    {r \in {[cluster |-> c, similarity |-> LexicalSimilarity(x, c)] :
               c \in DOMAIN live \ {x}} :
        r.similarity >= MinLexical}

\* The two tiers merged: the lexical tier is asked only when the vector tier
\* has fewer than k results, and a cluster of both keeps its vector score.
BothTiers(x, k, threshold) ==
    LET vector == VectorTier(x, threshold)
    IN  IF Cardinality(vector) >= k THEN vector
        ELSE vector \cup {r \in LexicalTier(x) :
                             \A v \in vector : v.cluster # r.cluster}

\* The number of member phrases of a cluster (none when it is not live).
ClusterSize(c) == IF c \in DOMAIN live THEN Cardinality(live[c]) ELSE 0

\* r stands before q in the result: similarity descending, then cluster size
\* descending (then cluster id, to fix the order).
Before(r, q) ==
    \/ r.similarity > q.similarity
    \/ /\ r.similarity = q.similarity
       /\ ClusterSize(r.cluster) > ClusterSize(q.cluster)
    \/ /\ r.similarity = q.similarity
       /\ ClusterSize(r.cluster) = ClusterSize(q.cluster)
       /\ r.cluster < q.cluster

\* search(query_cluster, k, threshold): the merged tiers, sorted, cut to k.
search(x, k, threshold) ==
    LET results == BothTiers(x, k, threshold)
    IN  [n \in 1..Min(k, Cardinality(results)) |->
            CHOOSE r \in results :
                Cardinality({q \in results : Before(q, r)}) = n - 1]

SearchInit ==
    /\ CallIdle
    /\ MergeIdle
    /\ ResumeIdle
    /\ ServiceIdle
    /\ AppIdle
    /\ live \in {[c \in 1..n |-> {c}] : n \in 2..MaxClusters}
    /\ index = Snapshot(live)
    /\ query = NoQuery
    /\ found = <<>>

\* A manual merge: cluster b is merged into cluster a and is no longer live.
\* The index is not touched.
MergeClusters ==
    /\ \E a \in DOMAIN live, b \in DOMAIN live :
        /\ a # b
        /\ live' = [c \in DOMAIN live \ {b} |->
                        IF c = a THEN live[a] \cup live[b] ELSE live[c]]
    /\ UNCHANGED <<index, query, found>>
    /\ UNCHANGED <<callVars, mergeVars, resumeVars, serviceVars, appVars>>

\* The index artifact is built again from the live clusters and loaded.
RebuildIndex ==
    /\ index # Snapshot(live)
    /\ index' = Snapshot(live)
    /\ UNCHANGED <<live, query, found>>
    /\ UNCHANGED <<callVars, mergeVars, resumeVars, serviceVars, appVars>>

\* One query.
Search ==
    /\ \E x \in DOMAIN live, k \in 1..MaxK, threshold \in Thresholds :
        /\ query' = [cluster |-> x, k |-> k, threshold |-> threshold,
                     live |-> DOMAIN live]
        /\ found' = search(x, k, threshold)
    /\ UNCHANGED <<live, index>>
    /\ UNCHANGED <<callVars, mergeVars, resumeVars, serviceVars, appVars>>

SearchNext == MergeClusters \/ RebuildIndex \/ Search

SpecSearch == SearchInit /\ [][SearchNext]_vars

(***************************************************************************)
(* SpecBatches: step3_similarity run again and again on a list of groups   *)
(* longer than one batch, with an oracle of a standing opinion             *)
(***************************************************************************)

\* The corpus after step 1 and step 2: the odd phrase and Step3Batch + 1
\* phrases of one first word, a group each; two more groups than one batch.
BatchCorpus ==
    [k \in 1..(Step3Batch + 2) |->
        Only({[Dream(k, t) EXCEPT !.normalized = t] :
                 t \in {IF k = 1 THEN OddPhrase ELSE WindowPhrase(k - 2)}})]

\* The opinions of the oracle: the first two phrases are equivalent (groups
\* of the first batch), and so are the last two (groups of the second batch),
\* or one of the two only.
BatchOpinions ==
    {Holding({{WindowPhrase(0), WindowPhrase(1)},
              {WindowPhrase(Step3Batch - 1), WindowPhrase(Step3Batch)}}),
     Holding({{WindowPhrase(0), WindowPhrase(1)}}),
     Holding({{WindowPhrase(Step3Batch - 1), WindowPhrase(Step3Batch)}})}

BatchesInit ==
    /\ CallIdle
    /\ ResumeIdle
    /\ ServiceIdle
    /\ AppIdle
    /\ SearchIdle
    /\ driver = "step3_similarity"
    /\ dreams = BatchCorpus
    /\ opinion \in BatchOpinions
    /\ last_index = 0
    /\ cursor = Len(dreams)
    /\ groups = <<>>
    /\ i = 0
    /\ j = 0
    /\ stop = <<0, 0>>
    /\ examined = <<>>
    /\ merged_count = 0
    /\ verdicts = <<>>
    /\ to_delete = {}
    /\ classified = <<>>
    /\ mpc = "normalize"

\* groups.json, as step2_group left it.
GroupsFile == ExactGroups(dreams)

\* step3_similarity is run again while the checkpoint is short of the end:
\* it reads last_index, loads groups.json, sorts it and takes the next batch.
Step3Rerun ==
    /\ mpc = "done"
    /\ driver = "step3_similarity"
    /\ last_index < Len(GroupsFile)
    /\ groups' = SortByRepresentative(GroupsFile)
    /\ i' = last_index
    /\ stop' = <<Min(last_index + Step3Batch, Len(GroupsFile)), 0>>
    /\ to_delete' = {}
    /\ merged_count' = 0
    /\ mpc' = "outer"
    /\ UNCHANGED <<driver, dreams, cursor, j, examined, verdicts, classified,
                   opinion, last_index>>
    /\ UNCHANGED <<callVars, resumeVars, serviceVars, appVars, searchVars>>

BatchesNext ==
    \/ ExactPass
    \/ OuterEnter
    \/ InnerExit
    \/ Step3Skip
    \/ Step3Compare
    \/ Step3Finish
    \/ Step3Rerun

SpecBatches == BatchesInit /\ [][BatchesNext]_vars

(***************************************************************************)
(* SpecTaxonomy: step4_taxonomy run again and again on a list of groups    *)
(* longer than one batch, with an oracle of a standing opinion             *)
(***************************************************************************)

\* batch_size of step4_taxonomy.
TaxBatch == 50

\* The corpus after step 1: TaxBatch + 2 records, each with a phrase of its
\* own, so two more groups than one batch.
TaxCorpus ==
    [k \in 1..(TaxBatch + 2) |->
        Only({[Dream(k, t) EXCEPT !.normalized = t] : t \in {WindowPhrase(k - 1)}})]

\* The opinions of the oracle: it classifies every phrase, or none, or all
\* but the first and the last.
TaxOpinions ==
    {Knowing({WindowPhrase(k) : k \in 0..(TaxBatch + 1)}),
     Knowing({}),
     Knowing({WindowPhrase(k) : k \in 1..TaxBatch})}

\* What the oracle can do with the taxonomy request for a phrase.
TaxOutcomesFor(phrase) ==
    IF ~opinion.fixed THEN PipelineTaxOutcomes
    ELSE IF phrase \in opinion.known
    THEN {Answers(S(<<"A", "|", "B", "|", "C">>))}
    ELSE {Raises}

\* step 2 is done, step 3 was left out: groups.json is the file of the groups;
\* there is no taxonomy checkpoint and no groups_with_taxonomy.json.
TaxonomyInit ==
    /\ CallIdle
    /\ ResumeIdle
    /\ ServiceIdle
    /\ AppIdle
    /\ SearchIdle
    /\ driver = "step4_taxonomy"
    /\ dreams = AssignGroups(TaxCorpus, ExactGroups(TaxCorpus))
    /\ groups = ExactGroups(TaxCorpus)
    /\ opinion \in TaxOpinions
    /\ last_index = 0
    /\ cursor = Len(dreams)
    /\ i = 0
    /\ j = 0
    /\ stop = <<0, 0>>
    /\ examined = <<>>
    /\ merged_count = 0
    /\ verdicts = <<>>
    /\ to_delete = {}
    /\ classified = <<>>
    /\ mpc = "done"

\* One run of step4_taxonomy begins: it reads last_index, loads the file of
\* the groups, whose groups have no taxonomy, and takes the next batch.
\* classified is the loaded list: NoTaxonomy for a group without the key.
Step4Start ==
    /\ mpc = "done"
    /\ driver = "step4_taxonomy"
    /\ last_index < Len(groups)
    /\ classified' = [k \in 1..Len(groups) |-> NoTaxonomy]
    /\ i' = last_index
    /\ stop' = <<Min(last_index + TaxBatch, Len(groups)), 0>>
    /\ mpc' = "taxonomy"
    /\ UNCHANGED <<driver, dreams, cursor, groups, j, examined, merged_count,
                   verdicts, to_delete, opinion, last_index>>
    /\ UNCHANGED <<callVars, resumeVars, serviceVars, appVars, searchVars>>

\* One iteration of the loop: group i gets the taxonomy of the service, or
\* the fallback taxonomy when the call raises.
Step4Classify ==
    /\ mpc = "taxonomy"
    /\ i < stop[1]
    /\ \E o \in TaxOutcomesFor(groups[i + 1].representative) :
        classified' = [classified EXCEPT ![i + 1] =
                          IF call_api_raises(o)
                          THEN fallback_taxonomy(groups[i + 1].representative)
                          ELSE create_taxonomy(groups[i + 1].representative, o)]
    /\ i' = i + 1
    /\ UNCHANGED <<driver, dreams, cursor, groups, j, stop, examined,
                   merged_count, verdicts, to_delete, opinion, last_index, mpc>>
    /\ UNCHANGED <<callVars, resumeVars, serviceVars, appVars, searchVars>>

\* The loaded list is saved as groups_with_taxonomy.json and end_index as the
\* checkpoint.
Step4Save ==
    /\ mpc = "taxonomy"
    /\ i = stop[1]
    /\ last_index' = stop[1]
    /\ mpc' = "done"
    /\ UNCHANGED <<driver, dreams, cursor, groups, i, j, stop, examined,
                   merged_count, verdicts, to_delete, classified, opinion>>
    /\ UNCHANGED <<callVars, resumeVars, serviceVars, appVars, searchVars>>

TaxonomyNext == Step4Start \/ Step4Classify \/ Step4Save

SpecTaxonomy == TaxonomyInit /\ [][TaxonomyNext]_vars

(***************************************************************************)
(* SpecResume: the runs of run_background_clean.main on one corpus with a  *)
(* deterministic oracle; the process can be killed at any point and        *)
(* started again                                                           *)
(***************************************************************************)

\* if count % 100 == 0: save checkpoint
CheckpointEvery == 100

\* The number of rows of the largest corpus.
MaxCorpus == 101

\* The number of checkpoint writes that may raise.
MaxFaults == 1

\* The titles of the rows from the second on, in turn; BlankTitle is a title
\* the loader skips.
ResumeTitles == << S(<<"b", "e", " ", "y">>), S(<<"ALEF", "BET">>) >>
BlankTitle == S(<<" ">>)

\* What the stub can do with the request for a title.
ResumeOutcomes == {Raises, Answers(S(<<"t", "o", " ", "z">>))}

\* A corpus of n rows with post ids 1..n; the first row has the title first.
Corpus(n, first) ==
    [k \in 1..n |->
        [post_id |-> k,
         title |-> IF k = 1 THEN first
                   ELSE ResumeTitles[(k % Len(ResumeTitles)) + 1]]]

\* normalized_dreams.json after a complete json.dump of records.
Valid(records) == [kind |-> "valid", data |-> records]

\* normalized_dreams.json after open(..., 'w') and before json.dump is
\* through: empty or cut off, json.load raises on it.
Partial == [kind |-> "partial", data |-> <<>>]

\* The rows of rows the loader keeps: the title is not blank
\* (row['post_title'] and row['post_title'].strip()).
Loadable(rows) ==
    SelectSeq(rows, LAMBDA row : row.title # Empty /\ Strip(row.title) # Empty)

\* Schedule that does not look at the ids already done.
ScheduleAll(rows, done) == Loadable(rows)

\* all_dreams: the loadable rows whose post_id is not in done_ids.
Schedule(rows, done) ==
    SelectSeq(Loadable(rows), LAMBDA row : row.post_id \notin done)

\* The phrase stored for a title: normalize_dream's, or "to " + title.lower()
\* when that is falsy.
StoreNormalized(title, o) ==
    Only({IF ~Truthy(n) THEN To \o Lower(title) ELSE n :
            n \in {normalize_dream(title, o)}})

\* The record appended for the row dream.
Processed(dream, phrase) ==
    [post_id |-> dream.post_id, title |-> dream.title, normalized |-> phrase]

ResumeInit ==
    /\ CallIdle
    /\ MergeIdle
    /\ ServiceIdle
    /\ AppIdle
    /\ SearchIdle
    /\ corpus \in {Corpus(n, first) :
                     n \in {1, CheckpointEvery, MaxCorpus},
                     first \in {ResumeTitles[1], BlankTitle}}
    /\ stub \in [{ResumeTitles[k] : k \in 1..Len(ResumeTitles)} -> ResumeOutcomes]
    /\ checkpoint_file = Absent
    /\ processed_dreams = <<>>
    /\ done_ids = {}
    /\ all_dreams = <<>>
    /\ idx = 0
    /\ count = 0
    /\ faults = 0
    /\ rpc = "stopped"

\* main from its start to the loop: the checkpoint is loaded if the file
\* exists (json.load raises on a partial file and main ends with the
\* exception), done_ids and all_dreams are built, and main returns when
\* nothing is left to process.
StartMain ==
    /\ rpc \in {"stopped", "done"}
    /\ IF checkpoint_file.kind = "partial"
       THEN /\ rpc' = "aborted"
            /\ processed_dreams' = <<>>
            /\ done_ids' = {}
            /\ all_dreams' = <<>>
       ELSE /\ processed_dreams' = checkpoint_file.data
            /\ done_ids' = {checkpoint_file.data[k].post_id :
                               k \in 1..Len(checkpoint_file.data)}
            /\ all_dreams' = Schedule(corpus, done_ids')
            /\ rpc' = IF all_dreams' = <<>> THEN "done" ELSE "loop"
    /\ idx' = 0
    /\ count' = 0
    /\ UNCHANGED <<corpus, stub, checkpoint_file, faults>>
    /\ UNCHANGED <<callVars, mergeVars, serviceVars, appVars, searchVars>>

\* One iteration of the loop up to the checkpoint test: the row is
\* normalized and appended, count goes up.
ProcessRecord ==
    /\ rpc = "loop"
    /\ idx < Len(all_dreams)
    /\ LET dream == all_dreams[idx + 1]
       IN  processed_dreams' =
               Append(processed_dreams,
                      Processed(dream, StoreNormalized(dream.title,
                                                       stub[dream.title])))
    /\ count' = count + 1
    /\ IF count' % CheckpointEvery = 0
       THEN rpc' = "checkpoint" /\ idx' = idx
       ELSE rpc' = "loop" /\ idx' = idx + 1
    /\ UNCHANGED <<corpus, stub, checkpoint_file, done_ids, all_dreams, faults>>
    /\ UNCHANGED <<callVars, mergeVars, serviceVars, appVars, searchVars>>

\* open('normalized_dreams.json', 'w') of the checkpoint: the file is
\* truncated.
OpenCheckpoint ==
    /\ rpc = "checkpoint"
    /\ checkpoint_file' = Partial
    /\ rpc' = "dumping"
    /\ UNCHANGED <<corpus, stub, processed_dreams, done_ids, all_dreams, idx,
                   count, faults>>
    /\ UNCHANGED <<callVars, mergeVars, serviceVars, appVars, searchVars>>

\* json.dump of the checkpoint is through and the file is closed; the
\* progress is to be logged.
DumpCheckpoint ==
    /\ rpc = "dumping"
    /\ checkpoint_file' = Valid(processed_dreams)
    /\ rpc' = "logging"
    /\ UNCHANGED <<corpus, stub, processed_dreams, done_ids, all_dreams, idx,
                   count, faults>>
    /\ UNCHANGED <<callVars, mergeVars, serviceVars, appVars, searchVars>>

\* Lines 89-96: log has written the progress; the loop goes on.
LogCheckpoint ==
    /\ rpc = "logging"
    /\ rpc' = "loop"
    /\ idx' = idx + 1
    /\ UNCHANGED <<corpus, stub, checkpoint_file, processed_dreams, done_ids,
                   all_dreams, count, faults>>
    /\ UNCHANGED <<callVars, mergeVars, serviceVars, appVars, searchVars>>

\* open or json.dump of the checkpoint raises, or log does after the
\* checkpoint is written: the except branch appends the row with the fallback
\* phrase and the loop goes on.
CheckpointFails ==
    /\ rpc \in {"checkpoint", "dumping", "logging"}
    /\ faults < MaxFaults
    /\ faults' = faults + 1
    /\ LET dream == all_dreams[idx + 1]
       IN  processed_dreams' =
               Append(processed_dreams,
                      Processed(dream, To \o Lower(dream.title)))
    /\ rpc' = "loop"
    /\ idx' = idx + 1
    /\ UNCHANGED <<corpus, stub, checkpoint_file, done_ids, all_dreams, count>>
    /\ UNCHANGED <<callVars, mergeVars, serviceVars, appVars, searchVars>>

\* The loop is over: open('normalized_dreams.json', 'w') of the final save.
OpenFinal ==
    /\ rpc = "loop"
    /\ idx = Len(all_dreams)
    /\ checkpoint_file' = Partial
    /\ rpc' = "final_dumping"
    /\ UNCHANGED <<corpus, stub, processed_dreams, done_ids, all_dreams, idx,
                   count, faults>>
    /\ UNCHANGED <<callVars, mergeVars, serviceVars, appVars, searchVars>>

\* json.dump of the final save is through: normalization is complete.
DumpFinal ==
    /\ rpc = "final_dumping"
    /\ checkpoint_file' = Valid(processed_dreams)
    /\ rpc' = "done"
    /\ UNCHANGED <<corpus, stub, processed_dreams, done_ids, all_dreams, idx,
                   count, faults>>
    /\ UNCHANGED <<callVars, mergeVars, serviceVars, appVars, searchVars>>

\* The process is killed: what it held in memory is gone, the file stays as
\* it is.
Crash ==
    /\ rpc \in {"loop", "checkpoint", "dumping", "logging", "final_dumping"}
    /\ rpc' = "stopped"
    /\ processed_dreams' = <<>>
    /\ done_ids' = {}
    /\ all_dreams' = <<>>
    /\ idx' = 0
    /\ count' = 0
    /\ UNCHANGED <<corpus, stub, checkpoint_file, faults>>
    /\ UNCHANGED <<callVars, mergeVars, serviceVars, appVars, searchVars>>

ResumeNext ==
    \/ StartMain
    \/ ProcessRecord
    \/ OpenCheckpoint
    \/ DumpCheckpoint
    \/ LogCheckpoint
    \/ CheckpointFails
    \/ OpenFinal
    \/ DumpFinal
    \/ Crash

SpecResume == ResumeInit /\ [][ResumeNext]_vars

(***************************************************************************)
(* SpecAuto: auto_normalize, which runs step1_normalize until the          *)
(* checkpoint reaches the number of records. corpus is full_results.tsv,   *)
(* checkpoint_file is normalized_dreams.json, last_index is the last_index *)
(* of normalize_checkpoint.json (0 when there is no file), stub is the     *)
(* oracle; rpc is "auto" in the loop, "complete" or "failed" after it, and *)
(* "raised" when auto_normalize has ended with an exception.               *)
(***************************************************************************)

\* The largest number of rows of full_results.tsv.
MaxTotal == 21

\* batch_size of step1_normalize.
NormBatch == 10

\* last_index when normalize_checkpoint.json is there and is not the JSON
\* text of a checkpoint: json.load raises in get_progress and in
\* step1_normalize.
Unreadable == -1

\* total of both scripts: the rows with a title that is not blank.
Total == Len(Loadable(corpus))

\* An end_index that does not move.
EndIndexStuck(start_index, total) == start_index

\* end_index = min(start_index + batch_size, total)
EndIndex(start_index, total) == Min(start_index + NormBatch, total)

\* step1_normalize, lines 23-44: the records of the rows, not normalized,
\* with dreams[:start_index] = previous[:start_index] when the file of the
\* results exists and start_index > 0.
Step1Loaded(start_index) ==
    LET rows == Loadable(corpus)
        fresh == [k \in 1..Len(rows) |-> Processed(rows[k], None)]
        previous == checkpoint_file.data
    IN  IF checkpoint_file.kind = "absent" \/ start_index = 0 THEN fresh
        ELSE Slice(previous, 1, Min(start_index, Len(previous)))
                 \o Slice(fresh, start_index + 1, Len(fresh))

\* Lines 59-64: the phrase of a record of the batch.
Step1Phrase(title, o) ==
    IF call_api_raises(o) THEN Lower(title) ELSE NormalizeStage(title, o)

\* Lines 56-64: the loaded records with those of the batch normalized.
Step1Normalized(loaded, start_index, end_index) ==
    [k \in 1..Len(loaded) |->
        IF start_index < k /\ k <= end_index
        THEN [loaded[k] EXCEPT !.normalized =
                 Step1Phrase(loaded[k].title, stub[loaded[k].title])]
        ELSE loaded[k]]

AutoInit ==
    /\ CallIdle
    /\ MergeIdle
    /\ ServiceIdle
    /\ AppIdle
    /\ SearchIdle
    /\ corpus \in {Corpus(n, first) :
                     n \in 0..MaxTotal,
                     first \in {ResumeTitles[1], BlankTitle}}
    /\ stub \in [{ResumeTitles[k] : k \in 1..Len(ResumeTitles)} -> ResumeOutcomes]
    /\ checkpoint_file = Absent
    /\ processed_dreams = <<>>
    /\ done_ids = {}
    /\ all_dreams = <<>>
    /\ idx = 0
    /\ count = 0
    /\ faults = 0
    /\ rpc = "auto"

\* One pass of the loop of auto_normalize with a run of step1_normalize that
\* returns 0: the batch is normalized, the records are saved and then the
\* checkpoint.
Step1Batch ==
    /\ rpc = "auto"
    /\ last_index < Total
    /\ \E end_index \in {EndIndex(last_index, Total)} :
       \E loaded \in {Step1Loaded(last_index)} :
           /\ checkpoint_file' = Valid(Step1Normalized(loaded, last_index, end_index))
           /\ last_index' = end_index
    /\ UNCHANGED <<corpus, stub, processed_dreams, done_ids, all_dreams, idx,
                   count, faults, rpc>>
    /\ UNCHANGED <<driver, dreams, cursor, groups, i, j, stop, examined,
                   merged_count, verdicts, to_delete, classified, opinion, mpc>>
    /\ UNCHANGED <<callVars, serviceVars, appVars, searchVars>>

\* One pass of the loop with a run of step1_normalize that ends with an
\* exception or is killed: before it has written anything, in the dump of the
\* records, between the dump and the checkpoint, in the write of the
\* checkpoint, which open has emptied, or after it. auto_normalize leaves the
\* loop and reads the checkpoint for its last line (line 66): get_progress
\* raises when the checkpoint cannot be read.
Step1Fails ==
    /\ rpc = "auto"
    /\ last_index < Total
    /\ faults < MaxFaults
    /\ \E saved \in {"nothing", "partial", "records", "checkpoint", "all"} :
       \E loaded \in {Step1Loaded(last_index)} :
        /\ checkpoint_file' =
               IF saved = "nothing" THEN checkpoint_file
               ELSE IF saved = "partial" THEN Partial
               ELSE Valid(Step1Normalized(loaded, last_index,
                                          EndIndex(last_index, Total)))
        /\ last_index' = IF saved = "checkpoint" THEN Unreadable
                         ELSE IF saved = "all" THEN EndIndex(last_index, Total)
                         ELSE last_index
        /\ rpc' = IF saved = "checkpoint" THEN "raised" ELSE "failed"
    /\ faults' = faults + 1
    /\ UNCHANGED <<corpus, stub, processed_dreams, done_ids, all_dreams, idx, count>>
    /\ UNCHANGED <<driver, dreams, cursor, groups, i, j, stop, examined,
                   merged_count, verdicts, to_delete, classified, opinion, mpc>>
    /\ UNCHANGED <<callVars, serviceVars, appVars, searchVars>>

\* if current >= total: break
AutoExit ==
    /\ rpc = "auto"
    /\ last_index >= Total
    /\ rpc' = "complete"
    /\ UNCHANGED <<corpus, stub, checkpoint_file, processed_dreams, done_ids,
                   all_dreams, idx, count, faults>>
    /\ UNCHANGED mergeVars
    /\ UNCHANGED <<callVars, serviceVars, appVars, searchVars>>

AutoNext == Step1Batch \/ Step1Fails \/ AutoExit

SpecAuto == AutoInit /\ [][AutoNext]_vars

\* The operating system runs the batch the loop has started, and the loop
\* goes on when the batch has returned; no run has to fail.
SpecAutoFair == SpecAuto /\ WF_vars(Step1Batch \/ AutoExit)

(***************************************************************************)
(* SpecService: one run that makes a sequence of normalize_dream,          *)
(* check_similarity and create_taxonomy calls on one service object, a     *)
(* GroqService or a DreamGroupingService                                   *)
(***************************************************************************)

\* The number of calls of a run.
MaxCalls == 3

\* The raw titles and the phrases the calls are made with.
ServiceTitles == { S(<<"T", "o", " ", "X">>), S(<<"ALEF", "BET">>) }
ServicePhrases == { S(<<"t", "o", " ", "x">>), S(<<"t", "o", " ", "y">>) }

\* What the oracle does with a request of the run.
ServiceNormOutcomes == { Raises, Answers(S(<<"t", "o", " ", "y">>)), Answers(S(<<"T", "o", " ", "Y", ".">>)) }
ServiceSimOutcomes == { Raises, Answers(S(<<"y">>)), Answers(S(<<" ", "Y", "e", "s">>)), Answers(S(<<"n", "o">>)) }

\* The phrases create_taxonomy is called with, and what the oracle does with
\* a classification request of the run.
ServiceTaxPhrases ==
    { BecomeAYoutuber,
      S(<<"a", " ", "d", "o", "c", "t", "o", "r", " ", "o", "n", " ", "y", "o", "u", "t", "u", "b", "e">>),
      S(<<"l", "o", "v", "e", " ", "t", "h", "e", " ", "g", "y", "m">>),
      S(<<"t", "o", " ", "b", "e", " ", "h", "a", "p", "p", "y">>) }
ServiceTaxOutcomes == { Raises, Answers(S(<<"C", "a", "r", "e", "e", "r", "|", "M", "e", "d", "i", "c", "i", "n", "e", "|", "D", "o", "c", "t", "o", "r">>)) }

\* The outcome field of a call that made no request.
NoRequest == Outcome(FALSE, None, FALSE, None)

\* One entry of the log: the method, its arguments, whether the call made a
\* request to the oracle, what the oracle did with it, and the value returned.
Call(method, args, asked, o, result) ==
    [method |-> method, args |-> args, asked |-> asked, outcome |-> o,
     result |-> result]

\* key in cache, cache[key] and cache[key] = value for a dict kept as a set of
\* pairs.
Cached(cache, key) == \E e \in cache : e[1] = key
Lookup(cache, key) == (CHOOSE e \in cache : e[1] = key)[2]
Store(cache, key, value) == {e \in cache : e[1] # key} \cup {<<key, value>>}

\* if phrase1 == phrase2 (false in every case).
NeverExactMatch(phrase1, phrase2) == FALSE

\* if phrase1 == phrase2: the quick check of both services.
ExactMatch(phrase1, phrase2) == phrase1 = phrase2

\* GroqService.normalize_dream returns None for a blank title before it
\* builds a prompt; every other title costs one request.
NormalizeAsks(dream_title) == Truthy(dream_title) /\ Strip(dream_title) # Empty

\* DreamGroupingService: cache_key = tuple(sorted([phrase1, phrase2])).
cache_key(phrase1, phrase2) ==
    IF LexLess(phrase2, phrase1) THEN <<phrase2, phrase1>>
    ELSE <<phrase1, phrase2>>

\* self.groq.get_completion(...) of DreamGroupingService: the GroqService
\* the service is built with has the method call_api and no get_completion,
\* so the attribute lookup raises AttributeError inside the try statement,
\* before a prompt is sent, and the except branch of the caller runs. The
\* statements after get_completion in the try statements (the cleaning of the
\* response, the store in the cache) are never reached.
GetCompletionRaises == TRUE

ServiceInit ==
    /\ CallIdle
    /\ MergeIdle
    /\ ResumeIdle
    /\ AppIdle
    /\ SearchIdle
    /\ service \in {"GroqService", "DreamGroupingService"}
    /\ normalized_cache = {}
    /\ similarity_cache = {}
    /\ log = <<>>

\* service.normalize_dream(dream_title) on a GroqService.
GroqNormalize ==
    /\ service = "GroqService"
    /\ Len(log) < MaxCalls
    /\ \E dream_title \in ServiceTitles :
           IF NormalizeAsks(dream_title)
           THEN \E o \in ServiceNormOutcomes :
                    log' = Append(log, Call("normalize_dream", <<dream_title>>,
                                            TRUE, o, normalize_dream(dream_title, o)))
           ELSE log' = Append(log, Call("normalize_dream", <<dream_title>>,
                                        FALSE, NoRequest, None))
    /\ UNCHANGED <<service, normalized_cache, similarity_cache>>
    /\ UNCHANGED <<callVars, mergeVars, resumeVars, appVars, searchVars>>

\* service.check_similarity(phrase1, phrase2) on a GroqService.
GroqCheckSimilarity ==
    /\ service = "GroqService"
    /\ Len(log) < MaxCalls
    /\ \E phrase1 \in ServicePhrases, phrase2 \in ServicePhrases :
           IF ExactMatch(phrase1, phrase2)
           THEN log' = Append(log, Call("check_similarity", <<phrase1, phrase2>>,
                                        FALSE, NoRequest, TRUE))
           ELSE \E o \in ServiceSimOutcomes :
                    log' = Append(log, Call("check_similarity", <<phrase1, phrase2>>,
                                            TRUE, o, check_similarity(phrase1, phrase2, o)))
    /\ UNCHANGED <<service, normalized_cache, similarity_cache>>
    /\ UNCHANGED <<callVars, mergeVars, resumeVars, appVars, searchVars>>

\* DreamGroupingService.normalize_dream(dream_title): from the cache, or the
\* lower-cased title of a title without a Hebrew letter, stored in the cache,
\* or the except branch: the lower-cased title, not stored.
GroupingNormalize ==
    /\ service = "DreamGroupingService"
    /\ Len(log) < MaxCalls
    /\ \E dream_title \in ServiceTitles :
           IF Cached(normalized_cache, dream_title)
           THEN /\ log' = Append(log, Call("normalize_dream", <<dream_title>>, FALSE,
                                           NoRequest,
                                           Lookup(normalized_cache, dream_title)))
                /\ UNCHANGED normalized_cache
           ELSE IF ~HasHebrew(dream_title)
           THEN LET phrase == Strip(Lower(dream_title))
                IN  /\ normalized_cache' =
                           Store(normalized_cache, dream_title, phrase)
                    /\ log' = Append(log, Call("normalize_dream", <<dream_title>>,
                                               FALSE, NoRequest, phrase))
           ELSE /\ GetCompletionRaises
                /\ log' = Append(log, Call("normalize_dream", <<dream_title>>,
                                           FALSE, NoRequest, Lower(dream_title)))
                /\ UNCHANGED normalized_cache
    /\ UNCHANGED <<service, similarity_cache>>
    /\ UNCHANGED <<callVars, mergeVars, resumeVars, appVars, searchVars>>

\* DreamGroupingService.check_similarity(phrase1, phrase2): from the cache,
\* or True for equal phrases, stored in the cache, or the except branch:
\* False, not stored.
GroupingCheckSimilarity ==
    /\ service = "DreamGroupingService"
    /\ Len(log) < MaxCalls
    /\ \E phrase1 \in ServicePhrases, phrase2 \in ServicePhrases :
           LET key == cache_key(phrase1, phrase2)
           IN  IF Cached(similarity_cache, key)
               THEN /\ log' = Append(log, Call("check_similarity", <<phrase1, phrase2>>,
                                               FALSE, NoRequest,
                                               Lookup(similarity_cache, key)))
                    /\ UNCHANGED similarity_cache
               ELSE IF ExactMatch(phrase1, phrase2)
               THEN /\ similarity_cache' = Store(similarity_cache, key, TRUE)
                    /\ log' = Append(log, Call("check_similarity", <<phrase1, phrase2>>,
                                               FALSE, NoRequest, TRUE))
               ELSE /\ GetCompletionRaises
                    /\ log' = Append(log, Call("check_similarity",
                                               <<phrase1, phrase2>>, FALSE,
                                               NoRequest, FALSE))
                    /\ UNCHANGED similarity_cache
    /\ UNCHANGED <<service, normalized_cache>>
    /\ UNCHANGED <<callVars, mergeVars, resumeVars, appVars, searchVars>>

\* service.create_taxonomy(phrase) on a GroqService: one request.
GroqCreateTaxonomy ==
    /\ service = "GroqService"
    /\ Len(log) < MaxCalls
    /\ \E phrase \in ServiceTaxPhrases, o \in ServiceTaxOutcomes :
           log' = Append(log, Call("create_taxonomy", <<phrase>>, TRUE, o,
                                   create_taxonomy(phrase, o)))
    /\ UNCHANGED <<service, normalized_cache, similarity_cache>>
    /\ UNCHANGED <<callVars, mergeVars, resumeVars, appVars, searchVars>>

\* DreamGroupingService.create_taxonomy(representative_phrase): the except
\* branch, the path of _fallback_taxonomy.
GroupingCreateTaxonomy ==
    /\ service = "DreamGroupingService"
    /\ Len(log) < MaxCalls
    /\ GetCompletionRaises
    /\ \E representative_phrase \in ServiceTaxPhrases :
           log' = Append(log, Call("create_taxonomy", <<representative_phrase>>,
                                   FALSE, NoRequest,
                                   _fallback_taxonomy(representative_phrase)))
    /\ UNCHANGED <<service, normalized_cache, similarity_cache>>
    /\ UNCHANGED <<callVars, mergeVars, resumeVars, appVars, searchVars>>

ServiceNext ==
    \/ GroqNormalize
    \/ GroqCheckSimilarity
    \/ GroqCreateTaxonomy
    \/ GroupingNormalize
    \/ GroupingCheckSimilarity
    \/ GroupingCreateTaxonomy

SpecService == ServiceInit /\ [][ServiceNext]_vars

(***************************************************************************)
(* The web application (app.py): start requests, the background import     *)
(* threads they start, and status queries, interleaved at the writes and   *)
(* reads of import_status. SpecStatus: one start request and status        *)
(* queries. SpecStarts: concurrent start requests.                         *)
(***************************************************************************)

\* The number of POST /api/import/start requests of a behaviour.
MaxStarts == 2

\* The number of GET /api/import/status requests of a behaviour.
MaxReads == 2

\* batch_size of run_import_in_background.
BatchSize == 1000

\* dreams_export.csv does not exist.
Missing == [kind |-> "missing", lines |-> 0, rows |-> 0, bad |-> FALSE]

\* dreams_export.csv exists and open() or the decoding of its lines raises:
\* a directory, a file that is not UTF-8.
Undecodable == [kind |-> "undecodable", lines |-> 0, rows |-> 0, bad |-> FALSE]

\* dreams_export.csv as a text file: the lines that iterating over the file
\* yields, the rows that csv.reader yields (the header is the first), and
\* whether csv.reader raises csv.Error after these rows (a field larger than
\* the field limit). A record with a line break inside a quoted field is one
\* row on two lines.
TextFile(lines, rows, bad) ==
    [kind |-> "text", lines |-> lines, rows |-> rows, bad |-> bad]

\* The files of a behaviour: no file, an undecodable file, an empty file,
\* the header and no row, one full batch, one full batch and a remainder, one
\* full batch with a line break inside one record, a remainder with a line
\* break inside its record, and files whose header or whose row after the
\* first batch csv.reader cannot read.
CsvFiles ==
    {Missing, Undecodable,
     TextFile(0, 0, FALSE),
     TextFile(1, 1, FALSE),
     TextFile(BatchSize + 1, BatchSize + 1, FALSE),
     TextFile(BatchSize + 2, BatchSize + 2, FALSE),
     TextFile(BatchSize + 2, BatchSize + 1, FALSE),
     TextFile(BatchSize + 3, BatchSize + 2, FALSE),
     TextFile(1, 0, TRUE),
     TextFile(BatchSize + 2, BatchSize + 1, TRUE)}

\* sum(1 for line in f): the lines of dreams_export.csv.
CsvLines == csvfile.lines

\* The rows that csv.reader yields after the header.
CsvRows == IF csvfile.rows = 0 THEN 0 ELSE csvfile.rows - 1

\* The messages of import_status, by the f-string that makes them and the
\* numbers it formats.
Message(text, a, b) == <<text, a, b>>
ReadyToImport == Message("Ready to import", 0, 0)

\* import_status when the module is loaded.
InitialStatus ==
    [running |-> FALSE, progress |-> 0, total |-> 0, message |-> ReadyToImport,
     success |-> "None", error |-> "None", last_update |-> "loaded"]

\* A thread that has not been started.
NoWorker ==
    [pc |-> "none", mid |-> FALSE, total_rows |-> 0, rows_imported |-> 0,
     e |-> "None"]

\* Threads that are between thread.start() and the end of
\* run_import_in_background.
Alive(w) == workers[w].pc \notin {"none", "finished"}

\* The application after the module is loaded, before the first of n start
\* requests.
ImportInit(n) ==
    /\ CallIdle
    /\ MergeIdle
    /\ ResumeIdle
    /\ ServiceIdle
    /\ SearchIdle
    /\ import_status = InitialStatus
    /\ workers = [w \in 1..n |-> NoWorker]
    /\ requests = [r \in 1..n |-> "idle"]
    /\ observed = <<>>
    /\ csvfile \in CsvFiles

\* start_import, line 354: if import_status['running'], answer 400.
StartCheck(r) ==
    /\ requests[r] = "idle"
    /\ requests' = [requests EXCEPT ![r] = IF import_status.running
                                           THEN "rejected" ELSE "checked"]
    /\ UNCHANGED <<import_status, workers, observed, csvfile>>
    /\ UNCHANGED <<callVars, mergeVars, resumeVars, serviceVars, searchVars>>

\* start_import, lines 361-394: the table holds rows and the request does
\* not force: answer 400; otherwise start the thread and answer.
StartThread(r) ==
    /\ requests[r] = "checked"
    /\ \E existing \in BOOLEAN, force \in BOOLEAN :
           IF existing /\ ~force
           THEN /\ requests' = [requests EXCEPT ![r] = "rejected"]
                /\ UNCHANGED workers
           ELSE /\ requests' = [requests EXCEPT ![r] = "accepted"]
                /\ workers' = [workers EXCEPT ![r].pc = "l152"]
    /\ UNCHANGED <<import_status, observed, csvfile>>
    /\ UNCHANGED <<callVars, mergeVars, resumeVars, serviceVars, searchVars>>

\* import_status_endpoint: jsonify(import_status).
ReadStatus ==
    /\ Len(observed) < MaxReads
    /\ observed' = Append(observed,
                          [status |-> import_status,
                           whole |-> \A w \in DOMAIN workers : ~workers[w].mid])
    /\ UNCHANGED <<import_status, workers, requests, csvfile>>
    /\ UNCHANGED <<callVars, mergeVars, resumeVars, serviceVars, searchVars>>

\* import_status[field] = value by thread w, which goes on at next. whole
\* says that this write is the last one of a run of consecutive writes, the
\* update of the status at one point of the import; mid is set while the
\* thread is between the first and the last write of an update.
Write(w, field, value, next, whole) ==
    /\ import_status' = [import_status EXCEPT ![field] = value]
    /\ workers' = [workers EXCEPT ![w].pc = next, ![w].mid = ~whole]
    /\ UNCHANGED <<requests, observed, csvfile>>
    /\ UNCHANGED <<callVars, mergeVars, resumeVars, serviceVars, searchVars>>

\* import_status['last_update'] = datetime.now().isoformat(): the time of
\* the write, which no other code reads.
Stamp(w, next) == Write(w, "last_update", "now", next, TRUE)

\* A step of thread w that does not write import_status: it goes on at next,
\* or at the except branch with the exception e.
Work(w, next, raises, e) ==
    /\ workers' = [workers EXCEPT ![w].pc = IF raises THEN "l283" ELSE next,
                                  ![w].e = IF raises THEN e ELSE @]
    /\ UNCHANGED <<import_status, requests, observed, csvfile>>
    /\ UNCHANGED <<callVars, mergeVars, resumeVars, serviceVars, searchVars>>

\* Lines 152-155.
WorkerStarts(w) ==
    \/ /\ workers[w].pc = "l152"
       /\ Write(w, "running", TRUE, "l153", FALSE)
    \/ /\ workers[w].pc = "l153"
       /\ Write(w, "message", Message("Starting import...", 0, 0), "l154", FALSE)
    \/ /\ workers[w].pc = "l154"
       /\ Write(w, "progress", 0, "l155", FALSE)
    \/ /\ workers[w].pc = "l155"
       /\ Write(w, "error", "None", "l158", TRUE)

\* Lines 158-184: the file test, the connection and the table; each database
\* call may raise.
WorkerPrepares(w) ==
    \/ /\ workers[w].pc = "l158"
       /\ Work(w, "l162", csvfile = Missing, "CSV file not found")
    \/ /\ workers[w].pc = "l162"
       /\ Write(w, "message", Message("Connecting to database...", 0, 0), "l163", TRUE)
    \/ /\ workers[w].pc = "l163"
       /\ \E raises \in BOOLEAN : Work(w, "l167", raises, "database error")
    \/ /\ workers[w].pc = "l167"
       /\ Write(w, "message", Message("Creating table structure...", 0, 0), "l168", TRUE)
    \/ /\ workers[w].pc = "l168"
       /\ \E raises \in BOOLEAN : Work(w, "l187", raises, "database error")

\* Lines 187-192: the lines of the file are counted, the header is
\* subtracted; open() and the decoding raise on an undecodable file.
WorkerCounts(w) ==
    \/ /\ workers[w].pc = "l187"
       /\ Write(w, "message", Message("Counting rows in CSV...", 0, 0), "l188", TRUE)
    \/ /\ workers[w].pc = "l188"
       /\ csvfile = Undecodable
       /\ Work(w, "l191", TRUE, "read error")
    \/ /\ workers[w].pc = "l188"
       /\ csvfile # Undecodable
       /\ workers' = [workers EXCEPT ![w].pc = "l191",
                                     ![w].total_rows = CsvLines - 1]
       /\ UNCHANGED <<import_status, requests, observed, csvfile>>
       /\ UNCHANGED <<callVars, mergeVars, resumeVars, serviceVars, searchVars>>
    \/ /\ workers[w].pc = "l191"
       /\ Write(w, "total", workers[w].total_rows, "l192", FALSE)
    \/ /\ workers[w].pc = "l192"
       /\ Write(w, "message", Message("Importing dreams...", workers[w].total_rows, 0),
                "l203", TRUE)

\* Lines 195-248: the rows that csv.reader yields are inserted in batches of
\* batch_size, the remainder after the loop; executemany may raise, next()
\* raises StopIteration on a file without a line, and csv.reader raises on
\* a row it cannot read, before the batch that row would be in is inserted.
WorkerImports(w) ==
    LET left == CsvRows - workers[w].rows_imported
        size == IF left >= BatchSize THEN BatchSize ELSE left
    IN  \/ /\ workers[w].pc = "l203"
           /\ left > 0
           /\ left >= BatchSize \/ ~csvfile.bad
           /\ \E raises \in BOOLEAN :
                  /\ workers' =
                         [workers EXCEPT
                            ![w].pc = IF raises THEN "l283"
                                      ELSE IF left >= BatchSize THEN "l232"
                                      ELSE "l248",
                            ![w].e = IF raises THEN "database error" ELSE @,
                            ![w].rows_imported = IF raises THEN @ ELSE @ + size]
                  /\ UNCHANGED <<import_status, requests, observed, csvfile>>
                  /\ UNCHANGED <<callVars, mergeVars, resumeVars, serviceVars, searchVars>>
        \/ /\ workers[w].pc = "l203"
           /\ left = 0
           /\ csvfile.rows > 0
           /\ ~csvfile.bad
           /\ Work(w, "l251", FALSE, "None")
        \/ /\ workers[w].pc = "l203"
           /\ csvfile.rows = 0
           /\ ~csvfile.bad
           /\ Work(w, "l251", TRUE, "")
        \/ /\ workers[w].pc = "l203"
           /\ left < BatchSize
           /\ csvfile.bad
           /\ Work(w, "l251", TRUE, "csv error")
        \/ /\ workers[w].pc = "l232"
           /\ Write(w, "progress", workers[w].rows_imported, "l233", FALSE)
        \/ /\ workers[w].pc = "l233"
           /\ Write(w, "message",
                    Message("Imported dreams...", workers[w].rows_imported,
                            workers[w].total_rows), "l234", FALSE)
        \/ /\ workers[w].pc = "l234"
           /\ Stamp(w, "l203")
        \/ /\ workers[w].pc = "l248"
           /\ Write(w, "progress", workers[w].rows_imported, "l251", TRUE)

\* Lines 251-288: the indexes, the commit and the counts, then the result;
\* final_count is the number of rows the thread inserted.
WorkerFinishes(w) ==
    LET final_count == workers[w].rows_imported
    IN  \/ /\ workers[w].pc = "l251"
           /\ Write(w, "message", Message("Creating indexes for performance...", 0, 0),
                    "l260", TRUE)
        \/ /\ workers[w].pc = "l260"
           /\ \E raises \in BOOLEAN : Work(w, "l277", raises, "database error")
        \/ /\ workers[w].pc = "l277"
           /\ Write(w, "success", "True", "l278", FALSE)
        \/ /\ workers[w].pc = "l278"
           /\ Write(w, "message", Message("Successfully imported dreams!", final_count, 0),
                    "l279", FALSE)
        \/ /\ workers[w].pc = "l279"
           /\ Write(w, "progress", final_count, "l280", FALSE)
        \/ /\ workers[w].pc = "l280"
           /\ Write(w, "total", final_count, "l287", FALSE)
        \/ /\ workers[w].pc = "l287"
           /\ Write(w, "running", FALSE, "l288", FALSE)
        \/ /\ workers[w].pc = "l288"
           /\ Stamp(w, "finished")

\* Lines 282-285: except Exception as e.
WorkerFails(w) ==
    \/ /\ workers[w].pc = "l283"
       /\ Write(w, "success", "False", "l284", FALSE)
    \/ /\ workers[w].pc = "l284"
       /\ Write(w, "error", workers[w].e, "l285", FALSE)
    \/ /\ workers[w].pc = "l285"
       /\ Write(w, "message", Message("Import failed", workers[w].e, 0), "l287", FALSE)

\* A step of one of the background threads.
Worker ==
    \E w \in DOMAIN workers :
        \/ WorkerStarts(w)
        \/ WorkerPrepares(w)
        \/ WorkerCounts(w)
        \/ WorkerImports(w)
        \/ WorkerFinishes(w)
        \/ WorkerFails(w)

\* A step of one of the start requests.
StartImport == \E r \in DOMAIN requests : StartCheck(r) \/ StartThread(r)

StatusInit == ImportInit(1)

StatusNext == StartImport \/ Worker \/ ReadStatus

SpecStatus == StatusInit /\ [][StatusNext]_vars

StartsInit == ImportInit(MaxStarts)

StartsNext == StartImport \/ Worker

SpecStarts == StartsInit /\ [][StartsNext]_vars

(***************************************************************************)
(* Claims about one call (checked under Spec)                              *)
(***************************************************************************)

NormalizeReturned == pc = "returned" /\ op = "normalize_dream"
TaxonomyReturned == pc = "returned" /\ op = "create_taxonomy"

\* C5: normalize_dream never returns null or an empty string, for every raw
\* title the corpus loader accepts and every behaviour of the oracle.
NormalizeNeverEmpty ==
    NormalizeReturned => normalized # None /\ normalized # Empty

\* The fallback as C6 words it: the raw phrase lower-cased, with "to " put in
\* front if and only if it does not start with "to ".
ClaimedFallback(title) ==
    LET low == Lower(title)
    IN  IF StartsWith(low, To) THEN low ELSE To \o low

\* The oracle raised, gave empty output, or gave output that holds Hebrew.
OracleFailed(o) ==
    o.raises \/ call_api(o) = Empty \/ HasHebrew(call_api(o))

\* C6: whenever the oracle raises, returns empty output or returns output
\* that still contains Hebrew characters, normalize_dream returns exactly the
\* fallback, for Hebrew and non-Hebrew titles alike.
FallbackOnOracleFailure ==
    (NormalizeReturned /\ OracleFailed(outcome))
        => normalized = ClaimedFallback(arg)

\* C7: with an oracle that fails on every call, normalize_dream("Become A
\* Doctor") returns "to become a doctor".
DoctorFallback ==
    (NormalizeReturned /\ arg = BecomeADoctor /\ outcome.raises)
        => normalized = S(<<"t", "o", " ", "b", "e", "c", "o", "m", "e", " ", "a", " ", "d", "o", "c", "t", "o", "r">>)

DoctorFallbackWitness ==
    NormalizeReturned /\ arg = BecomeADoctor /\ outcome.raises

\* C8: create_taxonomy is total: for every phrase and every oracle response
\* the three levels of the result are non-empty strings.
TaxonomyTotal ==
    TaxonomyReturned =>
        /\ Truthy(taxonomy.level1)
        /\ Truthy(taxonomy.level2)
        /\ Truthy(taxonomy.level3)

\* The response is exactly three letter/space segments separated by pipes.
IsThreeSegments(response) ==
    LET parts == Split(response, <<124>>)
    IN  /\ Len(parts) = 3
        /\ \A k \in 1..3 :
            /\ parts[k] # Empty
            /\ \A m \in 1..Len(parts[k]) : parts[k][m] \in LetterOrSpace

\* C9, as claimed: the answer is accepted only when it is exactly three
\* letter/space segments separated by pipes; every other response is discarded
\* and the result is the keyword fallback for the phrase.
OnlyThreeSegmentsAccepted ==
    (TaxonomyReturned /\ ~IsThreeSegments(call_api(outcome)))
        => taxonomy = fallback_taxonomy(arg)

\* Positions a < b of response hold pipes with a letter/space segment between
\* them, one ending right before a and one starting right after b.
SegmentsAround(response, a, b) ==
    /\ a > 1 /\ b > a + 1 /\ b < Len(response)
    /\ response[a] = 124 /\ response[b] = 124
    /\ response[a - 1] \in LetterOrSpace
    /\ \A m \in (a + 1)..(b - 1) : response[m] \in LetterOrSpace
    /\ response[b + 1] \in LetterOrSpace

\* The pairs of pipes of response around which three segments stand.
SegmentPairs(response) ==
    {ab \in (1..Len(response)) \X (1..Len(response)) :
        SegmentsAround(response, ab[1], ab[2])}

\* The letter/space segment of response that ends at position e, from its first
\* character on (the whole segment).
SegmentEndingAt(response, e) ==
    LET starts == {k \in 1..e :
                    \A m \in k..e : response[m] \in LetterOrSpace}
    IN  Slice(response, CHOOSE k \in starts : \A h \in starts : k <= h, e)

\* The letter/space segment of response that starts at position b.
SegmentStartingAt(response, b) ==
    LET ends == {k \in b..Len(response) :
                    \A m \in b..k : response[m] \in LetterOrSpace}
    IN  Slice(response, b, CHOOSE k \in ends : \A h \in ends : k >= h)

\* The response mentions a category word and has three lines or more.
ReadByLines(response) ==
    /\ \E w \in CategoryWords : Contains(Lower(response), w)
    /\ Cardinality({k \in 1..Len(response) : response[k] = 10}) >= 2

\* The line of response between the newline at position a (0: the start of the
\* text) and the next newline or the end of the text.
LineAfter(response, a) ==
    LET b == NextIndex(response, 10, a)
    IN  Slice(response, a + 1, IF b = 0 THEN Len(response) ELSE b - 1)

\* C9, as amended: the answer is accepted when three pipe-separated
\* letter/space segments stand anywhere in it (the leftmost such triple gives
\* the levels, whatever surrounds it), or else when it mentions career,
\* personal, health or travel and has at least three lines (the first three
\* lines, stripped, are the levels); every other response is discarded and the
\* result is the keyword fallback.
AcceptedBySearchOrLines ==
    TaxonomyReturned =>
        LET response == call_api(outcome)
            pairs == SegmentPairs(response)
        IN  IF pairs # {}
            THEN LET ab == CHOOSE x \in pairs : \A y \in pairs : x[1] <= y[1]
                 IN  taxonomy =
                        Taxonomy(Strip(SegmentEndingAt(response, ab[1] - 1)),
                                 Strip(Slice(response, ab[1] + 1, ab[2] - 1)),
                                 Strip(SegmentStartingAt(response, ab[2] + 1)))
            ELSE IF ReadByLines(response)
            THEN LET n1 == NextIndex(response, 10, 0)
                     n2 == NextIndex(response, 10, n1)
                 IN  taxonomy = Taxonomy(Strip(LineAfter(response, 0)),
                                         Strip(LineAfter(response, n1)),
                                         Strip(LineAfter(response, n2)))
            ELSE taxonomy = fallback_taxonomy(arg)

\* An answer of more than three segments was accepted, and so was a free text
\* read by lines.
AcceptedBySearchOrLinesWitness ==
    /\ TaxonomyReturned
    /\ call_api(outcome) \in {S(<<"a", "|", "b", "|", "c", "|", "d">>), S(<<"P", "e", "r", "s", "o", "n", "a", "l", "NL", "NL">>)}
    /\ taxonomy # fallback_taxonomy(arg)

\* The first level of each keyword group, in the claimed order digital-creator,
\* professional, wealth, travel, relationship, fitness.
ClaimedLevel1 ==
    << S(<<"C", "a", "r", "e", "e", "r">>), S(<<"C", "a", "r", "e", "e", "r">>), S(<<"F", "i", "n", "a", "n", "c", "i", "a", "l">>),
       S(<<"T", "r", "a", "v", "e", "l">>), S(<<"R", "e", "l", "a", "t", "i", "o", "n", "s", "h", "i", "p", "s">>), S(<<"H", "e", "a", "l", "t", "h">>) >>

\* A word of each keyword group, in the claimed order.
ClaimedWord ==
    << S(<<"y", "o", "u", "t", "u", "b", "e">>), S(<<"d", "o", "c", "t", "o", "r">>), S(<<"m", "o", "n", "e", "y">>),
       S(<<"t", "r", "a", "v", "e", "l">>), S(<<"w", "e", "d", "d", "i", "n", "g">>), S(<<"g", "y", "m">>) >>

\* The table of GroqService alone (checked under Spec): with a failing oracle
\* the result is the path of the earliest keyword group the phrase matches,
\* in the order digital-creator, professional, wealth, travel, relationship,
\* fitness; a phrase that matches none gets Personal/Goals/General; "become a
\* youtuber" gets Career/Digital Creator/Social Media.
FirstRuleWins ==
    (TaxonomyReturned /\ call_api(outcome) = Empty) =>
        LET low == Lower(arg)
            matching == {k \in 1..Len(FallbackRules) : RuleMatches(k, low)}
            first == CHOOSE k \in matching : \A h \in matching : k <= h
        IN  /\ matching = {} =>
                taxonomy = Taxonomy(S(<<"P", "e", "r", "s", "o", "n", "a", "l">>), S(<<"G", "o", "a", "l", "s">>), S(<<"G", "e", "n", "e", "r", "a", "l">>))
            /\ matching # {} =>
                /\ taxonomy = FallbackRules[first].path
                /\ taxonomy.level1 = ClaimedLevel1[first]
            /\ \A k \in 1..Len(ClaimedWord) :
                (Contains(low, ClaimedWord[k])
                    /\ \A h \in 1..(k - 1) : ~RuleMatches(h, low))
                => taxonomy.level1 = ClaimedLevel1[k]
            /\ arg = BecomeAYoutuber =>
                taxonomy = Taxonomy(S(<<"C", "a", "r", "e", "e", "r">>), S(<<"D", "i", "g", "i", "t", "a", "l", " ", "C", "r", "e", "a", "t", "o", "r">>),
                                    S(<<"S", "o", "c", "i", "a", "l", " ", "M", "e", "d", "i", "a">>))

\* A phrase that matches several keyword groups was classified by the
\* fallback.
FirstRuleWinsWitness ==
    /\ TaxonomyReturned
    /\ outcome.raises
    /\ Cardinality({k \in 1..Len(FallbackRules) : RuleMatches(k, Lower(arg))}) >= 2

\* The rule table of the service object of the run.
ServiceFallbackRules ==
    IF service = "GroqService" THEN FallbackRules ELSE GroupingFallbackRules

\* The rule k of the table of the service matches the lower-cased phrase.
ServiceRuleMatches(k, phrase_lower) ==
    \E w \in ServiceFallbackRules[k].words : Contains(phrase_lower, w)

\* The create_taxonomy call c got no answer from the oracle.
OracleFailedFor(c) ==
    c.method = "create_taxonomy" /\ (~c.asked \/ call_api(c.outcome) = Empty)

\* The result of the call c is what the claimed table gives for its phrase.
AsClaimedTable(c, low, matching) ==
    /\ matching = {} =>
            c.result = Taxonomy(S(<<"P", "e", "r", "s", "o", "n", "a", "l">>), S(<<"G", "o", "a", "l", "s">>), S(<<"G", "e", "n", "e", "r", "a", "l">>))
    /\ matching # {} =>
            c.result = ServiceFallbackRules[CHOOSE k \in matching : \A h \in matching : k <= h].path
    /\ \A k \in 1..Len(ClaimedWord) :
            (Contains(low, ClaimedWord[k]) /\ \A h \in matching : h >= k)
                => c.result.level1 = ClaimedLevel1[k]
    /\ c.args[1] = BecomeAYoutuber =>
            c.result = Taxonomy(S(<<"C", "a", "r", "e", "e", "r">>), S(<<"D", "i", "g", "i", "t", "a", "l", " ", "C", "r", "e", "a", "t", "o", "r">>),
                                S(<<"S", "o", "c", "i", "a", "l", " ", "M", "e", "d", "i", "a">>))

\* C10: in both services (checked under SpecService), a create_taxonomy call
\* whose oracle failed returns the path of the earliest keyword group of the
\* table that the phrase matches, in the order digital-creator, professional,
\* wealth, travel, relationship, fitness; a phrase that matches none gets
\* Personal/Goals/General; "become a youtuber" gets Career/Digital
\* Creator/Social Media.
FallbackTableAsClaimed ==
    \A n \in 1..Len(log) :
        OracleFailedFor(log[n]) =>
            AsClaimedTable(log[n], Lower(log[n].args[1]),
                           {k \in 1..Len(ServiceFallbackRules) :
                               ServiceRuleMatches(k, Lower(log[n].args[1]))})

(***************************************************************************)
(* Claims about the merge pass (checked under SpecMerge)                   *)
(***************************************************************************)

\* The places (group, position in its member list) where post id p is listed.
PlacesOf(p) ==
    {<<g, m>> \in (1..Len(groups)) \X (1..MaxDreams + 1) :
        m <= Len(groups[g].members) /\ groups[g].members[m] = p}

MergePassDone == mpc = "done"

\* C1: after the merge pass every record of the input is a member of exactly
\* one surviving group, once, and the groups list nothing but input records.
PartitionAfterMerge ==
    MergePassDone =>
        /\ \A d \in 1..Len(dreams) : Cardinality(PlacesOf(dreams[d].post_id)) = 1
        /\ \A g \in 1..Len(groups) : \A m \in 1..Len(groups[g].members) :
               \E d \in 1..Len(dreams) : dreams[d].post_id = groups[g].members[m]
        /\ \A g \in 1..Len(groups) :
               groups[g].member_count = Len(groups[g].members)

\* C1: a finished merge pass that merged a group of two records into another
\* group and left two groups.
PartitionAfterMergeWitness ==
    /\ MergePassDone
    /\ merged_count >= 1
    /\ Len(groups) >= 2
    /\ \E g \in 1..Len(groups) : Len(groups[g].members) >= 2

\* C2: while the inner loop runs for group i, every group that now lies
\* between position i and position j has been visited by the loop for this i,
\* and no group has been visited twice.
NoGroupSkipped ==
    mpc = "inner" =>
        /\ \A p \in (i + 1)..(Min(j, Len(groups)) - 1) :
               \E e \in 1..Len(examined) : examined[e] = groups[p + 1].id
        /\ \A e, f \in 1..Len(examined) : examined[e] = examined[f] => e = f

(***************************************************************************)
(* Claims about the resumable normalization (checked under SpecResume)     *)
(***************************************************************************)

\* The collection a run of main that nothing interrupts builds on the empty
\* directory: one record per loadable row, in the order of the corpus.
Uninterrupted ==
    LET rows == Loadable(corpus)
    IN  [k \in 1..Len(rows) |->
            Processed(rows[k], StoreNormalized(rows[k].title, stub[rows[k].title]))]

\* C3: a run of main that started from a checkpoint of n records (none, when
\* there was no file) and reached its end, no checkpoint or log write having
\* raised, has processed the total - n remaining rows, and its collection, in
\* memory and on disk, is the collection of the uninterrupted run.
ResumeCorrect ==
    (rpc = "done" /\ faults = 0) =>
        /\ count = Len(Loadable(corpus)) - Cardinality(done_ids)
        /\ processed_dreams = Uninterrupted
        /\ checkpoint_file.kind = "valid" => checkpoint_file.data = Uninterrupted

\* C3: a run that was started on a checkpoint of CheckpointEvery records
\* after a kill has processed the rest of the corpus and has ended.
ResumeCorrectWitness ==
    /\ rpc = "done"
    /\ faults = 0
    /\ Cardinality(done_ids) = CheckpointEvery
    /\ count >= 1
    /\ Len(processed_dreams) = CheckpointEvery + count

\* C4: whenever the process is not running (killed, or ended by the
\* exception of json.load), normalized_dreams.json is absent or holds a
\* complete collection.
CheckpointNeverTorn ==
    rpc \in {"stopped", "aborted"} => checkpoint_file.kind # "partial"

(***************************************************************************)
(* Claims about the result of the merge pass (checked under SpecMerge)     *)
(***************************************************************************)

ToX == S(<<"t", "o", " ", "x">>)
ToY == S(<<"t", "o", " ", "y">>)

\* The corpus of the merge example: three records, two of them (A and B)
\* normalized to "to x" and one (C) to "to y".
TwoXOneY ==
    /\ Len(dreams) = 3
    /\ Cardinality({d \in 1..Len(dreams) : dreams[d].normalized = ToX}) = 2
    /\ Cardinality({d \in 1..Len(dreams) : dreams[d].normalized = ToY}) = 1

\* The oracle has said yes whenever it was asked about "to x" and "to y".
OracleJoinsXY == \A v \in 1..Len(verdicts) : verdicts[v].similar

\* One group is left: its representative is "to x" and its members are the
\* three records, each once.
OneGroupUnderToX ==
    /\ Len(groups) = 1
    /\ groups[1].representative = ToX
    /\ Len(groups[1].members) = Len(dreams)
    /\ {groups[1].members[m] : m \in 1..Len(groups[1].members)}
            = {dreams[d].post_id : d \in 1..Len(dreams)}

\* C11: for records A, B normalized to "to x" and C normalized to "to y", in
\* any order, and an oracle that joins the two phrases, the merge pass ends
\* with one group under "to x" that holds A, B and C.
MergedUnderToX ==
    (MergePassDone /\ TwoXOneY /\ OracleJoinsXY) => OneGroupUnderToX

\* The group of "to x" stands before the group of "to y" when the merge loop
\* starts: run_full_processing sorts the groups, process_all_dreams keeps the
\* order of first occurrence in the corpus.
ToXGroupFirst ==
    IF driver = "run_full_processing" THEN TRUE
    ELSE \E a, c \in 1..Len(dreams) :
            a < c /\ dreams[a].normalized = ToX /\ dreams[c].normalized = ToY

\* The same, when the group of "to x" stands before the group of "to y" at
\* the start of the merge loop (the merge keeps the representative of the
\* earlier group): it holds in both drivers, so the only runs that end with
\* the representative "to y" are those of process_all_dreams, which does not
\* sort the groups, on a corpus where C comes first.
MergedUnderEarlierToX ==
    (MergePassDone /\ TwoXOneY /\ OracleJoinsXY /\ ToXGroupFirst)
        => OneGroupUnderToX

\* process_all_dreams has merged the group of C into the group of A and B
\* after the oracle said yes.
MergedUnderEarlierToXWitness ==
    /\ MergePassDone
    /\ driver = "process_all_dreams"
    /\ TwoXOneY
    /\ ToXGroupFirst
    /\ Len(verdicts) = 1
    /\ verdicts[1].similar
    /\ verdicts[1].phrase1 = ToX
    /\ verdicts[1].phrase2 = ToY
    /\ OneGroupUnderToX

(***************************************************************************)
(* Claims about the record-to-group table (checked under SpecSteps)        *)
(***************************************************************************)

\* C12: after the merge pass the group_id of every record names a group that
\* is still in the list and that lists the record as a member.
NoDanglingGroupId ==
    MergePassDone =>
        \A d \in 1..Len(dreams) :
            \E g \in 1..Len(groups) :
                /\ groups[g].id = dreams[d].group_id
                /\ \E m \in 1..Len(groups[g].members) :
                       groups[g].members[m] = dreams[d].post_id

(***************************************************************************)
(* Claims about the calls of one run (checked under SpecService)           *)
(***************************************************************************)

\* The answer of the oracle, trimmed and lower-cased, starts with "y"; false
\* when the request failed.
AnswerStartsWithY(o) ==
    /\ ~o.raises
    /\ Truthy(o.content)
    /\ StartsWith(Lower(Strip(o.content)), S(<<"y">>))

\* C13: every check_similarity call that asked the oracle returned true
\* exactly when the trimmed, lower-cased answer starts with "y", and false for
\* every other answer and for a failed request.
VerdictIsLeadingY ==
    \A c \in 1..Len(log) :
        (log[c].method = "check_similarity" /\ log[c].asked) =>
            (log[c].result <=> AnswerStartsWithY(log[c].outcome))

\* Two entries of the log are calls of the same method.
SameMethod(a, b, method) == log[a].method = method /\ log[b].method = method

\* C14: a check_similarity call made after a call with the same unordered
\* pair of phrases issues no oracle request and returns the verdict of the
\* earlier call, also when the earlier request failed.
OneRequestPerPair ==
    \A a \in 1..Len(log), b \in 1..Len(log) :
        (/\ a < b
         /\ SameMethod(a, b, "check_similarity")
         /\ {log[a].args[1], log[a].args[2]} = {log[b].args[1], log[b].args[2]})
            => (~log[b].asked /\ log[b].result = log[a].result)

\* C15: a normalize_dream call made after a call with the same raw title
\* issues no oracle request and returns the phrase of the earlier call, also
\* when the earlier request failed.
OneRequestPerTitle ==
    \A a \in 1..Len(log), b \in 1..Len(log) :
        (/\ a < b
         /\ SameMethod(a, b, "normalize_dream")
         /\ log[a].args = log[b].args)
            => (~log[b].asked /\ log[b].result = log[a].result)

\* C16: check_similarity(a, a) returns true and issues no oracle request.
EqualPhrasesNeedNoRequest ==
    \A c \in 1..Len(log) :
        (log[c].method = "check_similarity" /\ log[c].args[1] = log[c].args[2])
            => (~log[c].asked /\ log[c].result = TRUE)

\* A run in which the oracle denied a pair and the next call compared a
\* phrase with itself.
EqualPhrasesNeedNoRequestWitness ==
    /\ Len(log) >= 2
    /\ SameMethod(1, 2, "check_similarity")
    /\ log[1].asked
    /\ log[1].result = FALSE
    /\ log[2].args[1] = log[2].args[2]
    /\ log[2].args[1] \in {log[1].args[1], log[1].args[2]}
    /\ ~log[2].asked
    /\ log[2].result = TRUE

(***************************************************************************)
(* Claims about a failed checkpoint write (checked under SpecResume)       *)
(***************************************************************************)

\* C17: a checkpoint write that raises aborts the run: the step in which the
\* write raises adds nothing to the collection in memory and leaves the run
\* stopped, so that no further record is processed.
CheckpointFailureAborts ==
    [][(faults' > faults /\ rpc \in {"checkpoint", "dumping"}) =>
          /\ processed_dreams' = processed_dreams
          /\ rpc' \in {"stopped", "aborted"}]_vars

(***************************************************************************)
(* Claims about the status record of the web application                   *)
(***************************************************************************)

\* C18 (checked under SpecStatus): every status query returns a snapshot that
\* the worker published as a whole: none is taken while a thread is between
\* the first and the last write of an update, so none mixes the fields of two
\* updates.
ReaderSeesWholeSnapshot ==
    \A k \in 1..Len(observed) : observed[k].whole

\* C19 (checked under SpecStarts): the status record has at most one writer
\* at any time: no second background thread is started while one is running.
AtMostOneWriter ==
    Cardinality({w \in DOMAIN workers : Alive(w)}) <= 1

(***************************************************************************)
(* Claims about oracle failures in a pipeline run (checked under           *)
(* SpecPipeline)                                                           *)
(***************************************************************************)

\* Stage 1 has gone over all records: each has a phrase.
AllNormalized ==
    /\ cursor = Len(dreams)
    /\ \A d \in 1..Len(dreams) : Truthy(dreams[d].normalized)

\* C20: no failure of the oracle leaves the service as an exception or stops
\* a stage: no stage crashes, stage 2 starts only after stage 1 has gone over
\* all records, and when stage 3 returns every group has its taxonomy.
OracleFailuresTolerated ==
    /\ mpc # "crashed"
    /\ mpc \in {"outer", "inner", "done", "classified"} => AllNormalized
    /\ mpc = "classified" => Len(classified) = Len(groups)

\* A run that has ended although the oracle failed on the Hebrew title (the
\* record has the lower-cased title as its phrase), in which the groups were
\* compared and at least two groups were classified.
OracleFailuresToleratedWitness ==
    /\ mpc = "classified"
    /\ \E d \in 1..Len(dreams) :
           /\ HasHebrew(dreams[d].title)
           /\ dreams[d].normalized = Lower(dreams[d].title)
    /\ Len(verdicts) > 0
    /\ Len(classified) >= 2

(***************************************************************************)
(* Claims about the repair pass (checked under SpecRepair)                 *)
(***************************************************************************)

\* C21: once stage 1 has handled a record its normalized phrase is a
\* non-empty string in every later state; the repair pass never sets it back
\* to null.
NormalizedNeverNullAgain ==
    \A d \in 1..Len(dreams) :
        (mpc \in {"fix", "fixed"} \/ d <= cursor) => Truthy(dreams[d].normalized)


(***************************************************************************)
(* Claims about the window of the merge pass                               *)
(***************************************************************************)

\* The list of groups is in lexical order of the representatives.
SortedByRepresentative(gs) ==
    \A a \in 1..Len(gs), b \in 1..Len(gs) :
        a < b => ~LexLess(gs[b].representative, gs[a].representative)

\* C22: the merge pass works on the clusters sorted lexically by
\* representative, and the cluster compared with cluster i lies at most W
\* positions after it in the current list.
SortedWindowedMerge ==
    mpc \in {"outer", "inner"} =>
        /\ SortedByRepresentative(groups)
        /\ (mpc = "inner" /\ j < stop[2] /\ j < Len(groups))
               => (i < j /\ j - i <= Window(driver))


\* The oracle was asked about the phrases p and q.
Compared(p, q) ==
    \E k \in 1..Len(verdicts) : {verdicts[k].phrase1, verdicts[k].phrase2} = {p, q}

\* The records a and b are members of one group.
SameCluster(a, b) ==
    \E g \in 1..Len(groups) :
        /\ \E m \in 1..Len(groups[g].members) : groups[g].members[m] = a
        /\ \E m \in 1..Len(groups[g].members) : groups[g].members[m] = b

\* C23: on the long corpus, with an oracle that holds A ~ B and B ~ C, the
\* merge pass never asks about A and C, which never lie in one window, and it
\* ends with A and B in one cluster and C in another: no transitive closure.
NoTransitiveClosure ==
    opinion.fixed =>
        /\ ~Compared(PhraseA, PhraseC(driver))
        /\ mpc = "done" => /\ SameCluster(2, 3)
                           /\ ~SameCluster(2, Len(dreams))

\* The pass has ended on the long corpus with an oracle that holds A ~ B,
\* B ~ C and A ~ C too: A and B were merged, C is in a cluster of its own.
NoTransitiveClosureWitness ==
    /\ mpc = "done"
    /\ opinion.fixed
    /\ {PhraseA, PhraseC(driver)} \in opinion.pairs
    /\ Compared(PhraseA, PhraseB)
    /\ SameCluster(2, 3)
    /\ ~SameCluster(2, Len(dreams))
    /\ \E g \in 1..Len(groups) : groups[g].representative = PhraseC(driver)


(***************************************************************************)
(* Claims about the similarity search (checked under SpecSearch)           *)
(***************************************************************************)

\* C24: the result of a query for cluster X holds neither X nor a cluster
\* that was not live at the time of the query.
SearchExclusions ==
    \A n \in 1..Len(found) :
        /\ found[n].cluster # query.cluster
        /\ found[n].cluster \in query.live

\* A query gave results although the index held an entry of a cluster merged
\* away since the snapshot, with a score that clears the threshold.
SearchExclusionsWitness ==
    /\ query.cluster # 0
    /\ found # <<>>
    /\ \E e \in index :
        /\ e.cluster \notin query.live
        /\ e.cluster # query.cluster
        /\ VectorSimilarity(query.cluster, e.phrase) >= query.threshold


(***************************************************************************)
(* Claims about the batched merge step (checked under SpecSteps)           *)
(***************************************************************************)

\* The places (group, member) of the saved list that hold the record id.
SavedPlacesOf(post_id) ==
    {p \in UNION {{<<g, m>> : m \in 1..Len(groups[g].members)} : g \in 1..Len(groups)} :
        groups[p[1]].members[p[2]] = post_id}

\* C25: after one run of step3_similarity every record id of the input groups
\* is in exactly one group of the saved list.
Step3KeepsPartition ==
    (driver = "step3_similarity" /\ mpc = "done") =>
        \A d \in 1..Len(dreams) : Cardinality(SavedPlacesOf(dreams[d].post_id)) = 1


\* The records with the phrases p and q are members of one group of the list.
SavedTogether(p, q) ==
    \E g \in 1..Len(groups) :
        \A d \in 1..Len(dreams) :
            dreams[d].normalized \in {p, q} =>
                \E m \in 1..Len(groups[g].members) :
                    groups[g].members[m] = dreams[d].post_id

\* The checkpoint of step3_similarity has reached the end of the group list
\* and groups_merged.json is saved.
BatchesDone ==
    /\ driver = "step3_similarity"
    /\ mpc = "done"
    /\ last_index >= Len(GroupsFile)

\* C26: when the runs of step3_similarity have reached the end of the group
\* list, the saved list has the merge of every true verdict of every run.
BatchMergesKept ==
    BatchesDone =>
        \A k \in 1..Len(verdicts) :
            verdicts[k].similar =>
                SavedTogether(verdicts[k].phrase1, verdicts[k].phrase2)


(***************************************************************************)
(* Claims about the batched taxonomy step (checked under SpecTaxonomy)     *)
(***************************************************************************)

\* The taxonomy has three non-empty levels.
ThreeLevels(t) == Truthy(t.level1) /\ Truthy(t.level2) /\ Truthy(t.level3)

\* C27: when the checkpoint of step4_taxonomy has reached the end of the
\* group list, every group of groups_with_taxonomy.json has a taxonomy of
\* three non-empty levels, the groups of the earlier batches too.
EveryGroupClassified ==
    (driver = "step4_taxonomy" /\ mpc = "done" /\ last_index >= Len(groups)) =>
        /\ Len(classified) = Len(groups)
        /\ \A k \in 1..Len(classified) :
               classified[k] # NoTaxonomy /\ ThreeLevels(classified[k])


(***************************************************************************)
(* Claims about the records of the resumable normalization (checked under  *)
(* SpecResume)                                                             *)
(***************************************************************************)

\* No post id is listed twice in the collection.
NoDuplicateIds(collection) ==
    Cardinality({collection[k].post_id : k \in 1..Len(collection)}) = Len(collection)

\* C28: every record of the corpus is in the processed collection at most
\* once in memory and in every checkpoint, and exactly once when main has
\* ended, whatever fails inside the step of a record.
EachRecordOnce ==
    /\ NoDuplicateIds(processed_dreams)
    /\ checkpoint_file.kind = "valid" => NoDuplicateIds(checkpoint_file.data)
    /\ rpc = "done" =>
           {processed_dreams[k].post_id : k \in 1..Len(processed_dreams)}
               = {Loadable(corpus)[k].post_id : k \in 1..Len(Loadable(corpus))}


(***************************************************************************)
(* Claims about the end of a background import (checked under SpecStarts)  *)
(***************************************************************************)

\* Every started import has ended.
ImportsEnded ==
    /\ \E w \in DOMAIN workers : workers[w].pc = "finished"
    /\ \A w \in DOMAIN workers : ~Alive(w)

\* C29: once the started imports have ended the status record shows
\* running = false, so that a later start request passes the running test,
\* and either success = true with no error or success = false with the error
\* text.
EndedImportIsConsistent ==
    ImportsEnded =>
        /\ import_status.running = FALSE
        /\ \/ import_status.success = "True" /\ import_status.error = "None"
           \/ import_status.success = "False" /\ import_status.error # "None"


(***************************************************************************)
(* Claims about the batch normalizer and its driver loop (checked under    *)
(* SpecAutoFair)                                                           *)
(***************************************************************************)

\* The step is a run of step1_normalize that returned 0.
BatchSucceeded == rpc' = "auto" /\ checkpoint_file' # checkpoint_file

\* C30: a successful run of step1_normalize advances last_index by exactly
\* min(10, total - last_index), not beyond total, and leaves the records
\* before the old index as they were; the loop of auto_normalize comes to an
\* end, with every record normalized unless a run has failed.
AutoNormalizeTerminates ==
    /\ [][BatchSucceeded =>
            /\ last_index' = last_index + Min(NormBatch, Total - last_index)
            /\ last_index' <= Total
            /\ \A k \in 1..last_index :
                   checkpoint_file'.data[k] = checkpoint_file.data[k]]_vars
    /\ [](rpc = "complete" =>
            /\ last_index = Total
            /\ Total > 0 =>
                   /\ Len(checkpoint_file.data) = Total
                   /\ \A k \in 1..Total : Truthy(checkpoint_file.data[k].normalized))
    /\ [](rpc \in {"failed", "raised"} => faults > 0)
    /\ <>(rpc \in {"complete", "failed", "raised"})

\* The loop has ended after three successful runs, the last one a batch of
\* one record.
AutoNormalizeTerminatesWitness ==
    /\ rpc = "complete"
    /\ faults = 0
    /\ last_index = 2 * NormBatch + 1
    /\ Len(checkpoint_file.data) = last_index

====
